---- MODULE Spec2Model ----
(***************************************************************************)
(* Multi-source acquisition pipeline of the LoL coach backend:             *)
(* the /api/summoner handler (loop-based server and the original nested    *)
(* server), the source adapters with their retry logic, the static-data    *)
(* fallback and the persistence block.                                     *)
(***************************************************************************)
EXTENDS Integers, Sequences, FiniteSets, TLC

VARIABLES
    server,                \* which server file handles the request: "loop" | "nested"
    body,                  \* req.body: [valid, dataSource, useRiotApi, region]
    apiKey,                \* process.env.RIOT_API_KEY is set
    player,                \* the summoner of the request as the sources know it
    pc,                    \* position of the handler
    sourcesToTry,          \* attempt list
    pos,                   \* index of the for-loop over sourcesToTry
    failedSources,
    successfulSource,
    scrapedData,
    invoked,               \* adapters called by the handler, in call order
    regionArgs,            \* region argument of each call of invoked
    endpoint,              \* endpoint the running adapter is working on
    retryCount,            \* retryCount argument of the running adapter call
    httpCalls,             \* HTTP calls issued to the current endpoint by the running adapter
    lastOutcome,           \* outcome of the last completed HTTP call of the running adapter
    lastError,             \* error.message of the error that call ended in, NULL if none
    delay,                 \* duration of the wait the running adapter is suspended in (ms)
    matchCount,            \* number of match ids returned to fetchFromRiotApi
    saveStep,              \* persistence call in flight (1..3)
    response,              \* the response sent, NoResponse before
    sent,                  \* number of responses sent
    errorLog,              \* calls of logError, in call order
    retryAfterHeader,      \* retry-after header of the 429 answer the Riot catch block handles
    profileMatches,        \* data.matches: match list handed to the analytics functions
    insights,              \* return value of generateInsights for profileMatches
    tbody,                 \* rows of #championStatsTable, top to bottom
    requests,              \* concurrent requests to the loop-based server, each with its local state
    tables,                \* rows of the summoners, ranked_stats and insights tables
    savers,                \* persistence blocks in flight, each with its position and profile
    isIndexedDBSupported,  \* this.isIndexedDBSupported of the storage object of the page
    db,                    \* this.db: the open IndexedDB database, NULL before
    indexedDB,             \* object stores of the IndexedDB database, by key
    localStorage,          \* items of window.localStorage, by key
    now,                   \* Date.now(), in hours
    returned,              \* the last storage call that completed, with its return value
    calls,                 \* saved-account calls: position, local accounts array and return value
    savedAt,               \* per identity, timestamp of the last saveSummonerData that returned true
    added                  \* accounts whose addSavedAccount returned true, not removed since

\* state outside the request the handler works on
concVars    == <<requests>>
dbVars      == <<tables, savers>>
storeVars   == <<isIndexedDBSupported, db, indexedDB, localStorage>>
browserVars == <<storeVars, now, returned, calls, savedAt, added>>
sideVars    == <<concVars, dbVars, browserVars>>

vars == <<server, body, apiKey, player, pc, sourcesToTry, pos, failedSources,
          successfulSource, scrapedData, invoked, regionArgs, endpoint, retryCount,
          httpCalls, lastOutcome, lastError, delay, matchCount, retryAfterHeader, saveStep,
          response, sent,
          errorLog, profileMatches, insights, tbody, sideVars>>

orchVars    == <<sourcesToTry, pos, failedSources, successfulSource, scrapedData>>
adapterVars == <<endpoint, retryCount, httpCalls, lastOutcome, lastError, delay, matchCount,
                 retryAfterHeader>>
\* the analytics functions are called by no step of the handlers
pageVars    == <<profileMatches, insights, tbody>>
reqVars     == <<server, body, apiKey, player, pageVars, sideVars>>
respVars    == <<response, sent>>

-----------------------------------------------------------------------------
(* Bounds *)

MaxMatchIds == 1

-----------------------------------------------------------------------------
(* Constants of the program *)

NULL == "null"

OPGG             == "opgg"
MOBALYTICS       == "mobalytics"
LEAGUE_OF_GRAPHS == "league_of_graphs"
RIOT_API         == "riot_api"
DATA_DRAGON      == "data_dragon"

RiotMaxRetries       == 5
OpggMaxRetries       == 3
MobalyticsMaxRetries == 3
LogMaxRetries        == 3
RiotBaseDelay        == 1000

maxRetries(src) ==
    CASE src = RIOT_API         -> RiotMaxRetries
      [] src = OPGG             -> OpggMaxRetries
      [] src = MOBALYTICS       -> MobalyticsMaxRetries
      [] src = LEAGUE_OF_GRAPHS -> LogMaxRetries

priorityOrder == <<OPGG, MOBALYTICS, LEAGUE_OF_GRAPHS>>

-----------------------------------------------------------------------------
(* Request inputs *)

UNDEFINED == "undefined"

\* values of req.body.dataSource (UNDEFINED: the field is absent)
DataSourceInputs ==
    {UNDEFINED, "", "all", "ALL", "opgg", "OPGG", "mobalytics",
     "league_of_graphs", "riot_api", "data_dragon"}

Regions == {"na", "oce", "jp1"}

\* String.prototype.toLowerCase on the request values
toLowerCase(s) ==
    CASE s = "ALL"  -> "all"
      [] s = "OPGG" -> "opgg"
      [] OTHER      -> s

\* destructuring default (dataSource = 'all') followed by (dataSource || 'all').toLowerCase()
normalizedSource(ds) ==
    LET defaulted == IF ds = UNDEFINED THEN "all" ELSE ds
        nonEmpty  == IF defaulted = "" THEN "all" ELSE defaulted
    IN  toLowerCase(nonEmpty)

\* sourcesToTry as a bug would build it: the authenticated source is pushed
\* whenever useRiotApi is set, whatever source was requested
sourcesToTryRiotAlways(ds, useRiotApi) ==
    LET n    == normalizedSource(ds)
        riot == IF useRiotApi THEN <<RIOT_API>> ELSE <<>>
        rest == CASE n = "all"            -> priorityOrder
                  [] n = OPGG             -> <<OPGG>>
                  [] n = MOBALYTICS       -> <<MOBALYTICS>>
                  [] n = LEAGUE_OF_GRAPHS -> <<LEAGUE_OF_GRAPHS>>
                  [] OTHER                -> <<>>
    IN  riot \o rest

\* sourcesToTry as a bug would build it: the authenticated source goes last
sourcesToTryRiotLast(ds, useRiotApi) ==
    LET n    == normalizedSource(ds)
        riot == IF useRiotApi /\ (n = "all" \/ n = RIOT_API) THEN <<RIOT_API>> ELSE <<>>
        rest == CASE n = "all"            -> priorityOrder
                  [] n = OPGG             -> <<OPGG>>
                  [] n = MOBALYTICS       -> <<MOBALYTICS>>
                  [] n = LEAGUE_OF_GRAPHS -> <<LEAGUE_OF_GRAPHS>>
                  [] OTHER                -> <<>>
    IN  rest \o riot

\* sourcesToTry as a bug would build it: the riot_api branch pushes a second time
sourcesToTryRiotTwice(ds, useRiotApi) ==
    LET n    == normalizedSource(ds)
        riot == IF useRiotApi /\ (n = "all" \/ n = RIOT_API) THEN <<RIOT_API>> ELSE <<>>
        rest == CASE n = "all"            -> priorityOrder
                  [] n = OPGG             -> <<OPGG>>
                  [] n = MOBALYTICS       -> <<MOBALYTICS>>
                  [] n = LEAGUE_OF_GRAPHS -> <<LEAGUE_OF_GRAPHS>>
                  [] n = RIOT_API         -> <<RIOT_API>>
                  [] OTHER                -> <<>>
    IN  riot \o rest

\* construction of sourcesToTry
buildSourcesToTry(ds, useRiotApi) ==
    LET n    == normalizedSource(ds)
        riot == IF useRiotApi /\ (n = "all" \/ n = RIOT_API) THEN <<RIOT_API>> ELSE <<>>
        rest == CASE n = "all"            -> priorityOrder
                  [] n = OPGG             -> <<OPGG>>
                  [] n = MOBALYTICS       -> <<MOBALYTICS>>
                  [] n = LEAGUE_OF_GRAPHS -> <<LEAGUE_OF_GRAPHS>>
                  [] OTHER                -> <<>>
    IN  riot \o rest

-----------------------------------------------------------------------------
(* HTTP outcomes and the adapters' retry decisions *)

\* what one axios.get can end in: an HTTP status class, or a connection error code
StatusOutcomes  == {"ok", "404", "429", "4xx", "5xx"}
NetworkOutcomes == {"ECONNABORTED", "ETIMEDOUT", "ECONNRESET", "ENOTFOUND"}
Outcomes        == StatusOutcomes \cup NetworkOutcomes

\* retry-after header of a 429 answer, in seconds; NoHeader: the header is absent
NoHeader         == -1
RetryAfterValues == {NoHeader, 2}

Scrapers == {OPGG, MOBALYTICS, LEAGUE_OF_GRAPHS}

\* axios resolves the call (validateStatus of the request, default 2xx; with the
\* default the 4xx test after axios.get in makeRiotAPICall is never reached)
validateStatus(src, o) ==
    IF src \in {MOBALYTICS, LEAGUE_OF_GRAPHS}
    THEN o \in {"ok", "404", "429", "4xx"}
    ELSE o = "ok"

\* the try block of the adapter throws on this outcome
attemptFails(src, o) ==
    \/ ~validateStatus(src, o)
    \/ src \in {MOBALYTICS, LEAGUE_OF_GRAPHS} /\ o = "404"

\* error.response is set on the thrown error
hasResponse(src, o) == o \in StatusOutcomes /\ ~validateStatus(src, o)

\* error.message of a failed attempt: the Error the scraper throws on a 404
\* answer, else the message of the error axios rejects with
errorMessage(src, o) ==
    CASE src = MOBALYTICS /\ o = "404"       -> "Summoner not found on Mobalytics"
      [] src = LEAGUE_OF_GRAPHS /\ o = "404" -> "Summoner not found on League of Graphs"
      [] o = "404"          -> "Request failed with status code 404"
      [] o = "429"          -> "Request failed with status code 429"
      [] o = "4xx"          -> "Request failed with status code 403"
      [] o = "5xx"          -> "Request failed with status code 500"
      [] o = "ECONNABORTED" -> "timeout exceeded"
      [] o = "ETIMEDOUT"    -> "connect ETIMEDOUT"
      [] o = "ECONNRESET"   -> "read ECONNRESET"
      [] o = "ENOTFOUND"    -> "getaddrinfo ENOTFOUND"

\* error.code of the thrown error
errorCode(src, o) ==
    CASE o \in NetworkOutcomes                -> o
      [] hasResponse(src, o) /\ o = "5xx"     -> "ERR_BAD_RESPONSE"
      [] hasResponse(src, o)                  -> "ERR_BAD_REQUEST"
      [] OTHER                                -> UNDEFINED

\* retry condition with the comparison off by one
shouldRetryInclusive(src, o, rc) ==
    IF src = RIOT_API
    THEN /\ \/ hasResponse(src, o) /\ o = "429"
            \/ hasResponse(src, o) /\ o = "5xx"
            \/ ~hasResponse(src, o)
         /\ rc <= maxRetries(src)
    ELSE /\ rc <= maxRetries(src)
         /\ errorCode(src, o) \in {"ECONNRESET", "ETIMEDOUT"}

\* retry condition of the catch block
shouldRetry(src, o, rc) ==
    IF src = RIOT_API
    THEN /\ \/ hasResponse(src, o) /\ o = "429"
            \/ hasResponse(src, o) /\ o = "5xx"
            \/ ~hasResponse(src, o)
         /\ rc < maxRetries(src)
    ELSE /\ rc < maxRetries(src)
         /\ errorCode(src, o) \in {"ECONNRESET", "ETIMEDOUT"}

RECURSIVE pow2(_)
pow2(n) == IF n = 0 THEN 1 ELSE 2 * pow2(n - 1)

\* the catch block suspends before the recursive call
waitsBeforeRetry(srv, src) == ~(srv = "loop" /\ src = LEAGUE_OF_GRAPHS)

\* a wait that doubles with the retry count in every adapter
retryDelayDoubling(srv, src, o, rc, retryAfter) ==
    CASE src = OPGG             -> 2000 * pow2(rc)
      [] src = MOBALYTICS       -> 3000 * pow2(rc)
      [] src = LEAGUE_OF_GRAPHS -> IF srv = "nested" THEN 4000 * pow2(rc) ELSE 0
      [] src = RIOT_API         ->
            IF hasResponse(src, o) /\ o = "429"
            THEN (IF retryAfter = NoHeader THEN 1 ELSE retryAfter) * 1000
            ELSE RiotBaseDelay * pow2(rc)

\* duration of that wait in ms
retryDelay(srv, src, o, rc, retryAfter) ==
    CASE src = OPGG             -> 2000 * (rc + 1)
      [] src = MOBALYTICS       -> 3000 * (rc + 1)
      [] src = LEAGUE_OF_GRAPHS -> IF srv = "nested" THEN 4000 * (rc + 1) ELSE 0
      [] src = RIOT_API         ->
            IF hasResponse(src, o) /\ o = "429"
            THEN (IF retryAfter = NoHeader THEN 1 ELSE retryAfter) * 1000
            ELSE RiotBaseDelay * pow2(rc)

\* fetchFromRiotApi: account, summoner, ranked, match ids, then one call per match id
RiotFixedEndpoints == 4
lastEndpoint(src, n) == IF src = RIOT_API THEN RiotFixedEndpoints + n ELSE 1

-----------------------------------------------------------------------------
(* Numbers: the JavaScript numbers of the score and statistics computations *)
(* are rationals n/d in lowest terms with d > 0; NaN is 0/0, +-Infinity is  *)
(* +-1/0                                                                    *)

NaN == [n |-> 0, d |-> 0]

Int2Num(i) == [n |-> i, d |-> 1]

abs(i) == IF i < 0 THEN -i ELSE i
sgn(i) == IF i < 0 THEN -1 ELSE IF i > 0 THEN 1 ELSE 0

\* Each operation below binds its operands to their values first
\* (x \in {operand}), so that an operand is evaluated once.

RECURSIVE gcd(_, _)
gcd(x, y) ==
    CHOOSE r \in {IF b = 0 THEN a ELSE gcd(b, a % b) : a \in {x}, b \in {y}} : TRUE

\* the number num/den
Rat(num, den) ==
    CHOOSE r \in
        {IF d = 0 THEN [n |-> sgn(n), d |-> 0]
         ELSE [n |-> (sgn(d) * n) \div gcd(abs(n), abs(d)),
               d |-> (sgn(d) * d) \div gcd(abs(n), abs(d))] : n \in {num}, d \in {den}} : TRUE

IsNaN(x)     == x.d = 0 /\ x.n = 0
IsFinite(x)  == x.d # 0
IsInteger(x) == x.d = 1

\* x + y
Add(x, y) ==
    CHOOSE r \in
        {IF IsFinite(a) /\ IsFinite(b) THEN Rat(a.n * b.d + b.n * a.d, a.d * b.d)
         ELSE IF IsNaN(a) \/ IsNaN(b) THEN NaN
         ELSE IF ~IsFinite(a) /\ ~IsFinite(b) THEN (IF a.n = b.n THEN a ELSE NaN)
         ELSE IF IsFinite(a) THEN b ELSE a : a \in {x}, b \in {y}} : TRUE

\* x * y
Mul(x, y) ==
    CHOOSE r \in {Rat(a.n * b.n, a.d * b.d) : a \in {x}, b \in {y}} : TRUE

\* x / y: 0/0 is NaN, a/0 is +-Infinity
Div(x, y) ==
    CHOOSE r \in
        {IF IsNaN(a) \/ IsNaN(b) THEN NaN
         ELSE IF b.n < 0 THEN Rat(-(a.n * b.d), -(a.d * b.n))
         ELSE Rat(a.n * b.d, a.d * b.n) : a \in {x}, b \in {y}} : TRUE

\* x < y (false when an operand is NaN)
Less(x, y) ==
    \E a \in {x}, b \in {y} :
        /\ ~IsNaN(a)
        /\ ~IsNaN(b)
        /\ IF ~IsFinite(a) /\ ~IsFinite(b) THEN a.n < b.n
           ELSE a.n * b.d < b.n * a.d

MathMin(x, y) ==
    CHOOSE r \in
        {IF IsNaN(a) \/ IsNaN(b) THEN NaN ELSE IF Less(b, a) THEN b ELSE a :
            a \in {x}, b \in {y}} : TRUE
MathMax(x, y) ==
    CHOOSE r \in
        {IF IsNaN(a) \/ IsNaN(b) THEN NaN ELSE IF Less(a, b) THEN b ELSE a :
            a \in {x}, b \in {y}} : TRUE

\* Math.round: the nearest integer, halves upwards
MathRound(x) ==
    CHOOSE r \in
        {IF IsFinite(a) THEN Int2Num((2 * a.n + a.d) \div (2 * a.d)) ELSE a :
            a \in {x}} : TRUE

\* x || 0
OrZero(x) ==
    CHOOSE r \in {IF IsNaN(a) \/ a.n = 0 THEN Int2Num(0) ELSE a : a \in {x}} : TRUE

RECURSIVE pow10(_)
pow10(k) == IF k = 0 THEN 1 ELSE 10 * pow10(k - 1)

\* parseFloat(x.toFixed(digits)) of a finite x >= 0
toFixed(x, digits) ==
    CHOOSE r \in
        {Rat((2 * a.n * pow10(digits) + a.d) \div (2 * a.d), pow10(digits)) :
            a \in {x}} : TRUE

\* the numeric value of a field that holds an integer; an absent field is
\* undefined, which arithmetic turns into NaN
intField(r, f) == IF f \in DOMAIN r THEN Int2Num(r[f]) ELSE NaN

\* the numeric value of a field that holds a fraction
numField(r, f) == IF f \in DOMAIN r THEN r[f] ELSE NaN

\* nums.reduce((sum, x) => sum + x, 0)
RECURSIVE SumSeq(_)
SumSeq(seq) ==
    CHOOSE r \in
        {IF nums = <<>> THEN Int2Num(0)
         ELSE Add(SumSeq(SubSeq(nums, 1, Len(nums) - 1)), nums[Len(nums)]) :
            nums \in {seq}} : TRUE

\* matches.filter(m => m.win).length
winCount(matches) == Cardinality({k \in 1..Len(matches) : matches[k].win})

-----------------------------------------------------------------------------
(* The summoner as the sources know it *)

SOLO_QUEUE == "RANKED_SOLO_5x5"

MatchKinds ==
    { [champion |-> "Ahri", win |-> TRUE,  kills |-> 10, deaths |-> 0, assists |-> 5, cspm |-> 8],
      [champion |-> "Zed",  win |-> FALSE, kills |-> 0,  deaths |-> 5, assists |-> 0, cspm |-> 3],
      [champion |-> "Ahri", win |-> FALSE, kills |-> 2,  deaths |-> 2, assists |-> 3, cspm |-> 6] }

SeqsUpTo(S, n) == UNION {[1..k -> S] : k \in 0..n}

PlayerTiers == {"Unranked", "Iron", "Gold", "Challenger"}

\* a player with a tier has played ranked games
Players ==
    {p \in [tier : PlayerTiers, division : {"II"}, lp : {50},
            wins : {0, 10}, losses : {0, 10},
            matches : SeqsUpTo(MatchKinds, MaxMatchIds)] :
        p.tier # "Unranked" => p.wins + p.losses > 0}

\* the players of the requests of Init: a new account, and a Gold II player
\* with 10 wins, 10 losses and a full match list
NewPlayer ==
    [tier |-> "Unranked", division |-> "II", lp |-> 50, wins |-> 0, losses |-> 0,
     matches |-> <<>>]
GoldPlayer ==
    [tier |-> "Gold", division |-> "II", lp |-> 50, wins |-> 10, losses |-> 10,
     matches |-> [k \in 1..MaxMatchIds |->
                    [champion |-> "Ahri", win |-> TRUE, kills |-> 10, deaths |-> 0,
                     assists |-> 5, cspm |-> 8]]]
MainPlayers == {NewPlayer, GoldPlayer}

\* length of a match in seconds (info.gameDuration)
GameDuration == 1800

-----------------------------------------------------------------------------
(* The results of the adapters *)

perMatchKDA(m) ==
    Div(Add(intField(m, "kills"), intField(m, "assists")),
        MathMax(intField(m, "deaths"), Int2Num(1)))
csPerMinuteOrZero(m) == OrZero(numField(m, "cs_per_minute"))

\* the summands of the reduce calls over a match list
kdaPerMatch(matches) == [k \in 1..Len(matches) |-> perMatchKDA(matches[k])]
csPerMatch(matches)  == [k \in 1..Len(matches) |-> csPerMinuteOrZero(matches[k])]
fieldValues(matches, f) == [k \in 1..Len(matches) |-> intField(matches[k], f)]

\* the statistics block of fetchFromRiotApi (and of scrapeOPGG for a non-empty
\* match list)
matchStatistics(matches) ==
    [winRate |-> Div(Int2Num(winCount(matches)), Int2Num(Len(matches))),
     avgKDA  |-> Div(SumSeq(kdaPerMatch(matches)), Int2Num(Len(matches))),
     avgCS   |-> Div(SumSeq(csPerMatch(matches)), Int2Num(Len(matches)))]

\* the tier as the Riot API spells it
riotTier(t) ==
    CASE t = "Iron"       -> "IRON"
      [] t = "Gold"       -> "GOLD"
      [] t = "Challenger" -> "CHALLENGER"

riotMatch(m) ==
    [champion_name |-> m.champion, win |-> m.win, kills |-> m.kills,
     deaths |-> m.deaths, assists |-> m.assists,
     cs_per_minute |-> Div(Int2Num(m.cspm * (GameDuration \div 60)),
                           Div(Int2Num(GameDuration), Int2Num(60)))]

fetchFromRiotApiResult(p) ==
    LET matches == [k \in 1..Len(p.matches) |-> riotMatch(p.matches[k])] IN
    [source     |-> RIOT_API,
     ranked     |-> IF p.tier = "Unranked" THEN <<>>
                    ELSE <<[queueType |-> SOLO_QUEUE, tier |-> riotTier(p.tier),
                            rank |-> p.division, leaguePoints |-> p.lp,
                            wins |-> p.wins, losses |-> p.losses]>>,
     matches    |-> matches,
     statistics |-> matchStatistics(matches)]

scrapedMatch(m) ==
    [champion_name |-> m.champion, win |-> m.win, kills |-> m.kills,
     deaths |-> m.deaths, assists |-> m.assists, cs_per_minute |-> Int2Num(m.cspm)]

scrapeOPGGResult(p) ==
    LET matches == [k \in 1..Len(p.matches) |-> scrapedMatch(p.matches[k])] IN
    [source     |-> OPGG,
     ranked     |-> IF p.tier = "Unranked" THEN <<>>
                    ELSE <<[queue |-> SOLO_QUEUE, tier |-> p.tier,
                            rank |-> p.division, leaguePoints |-> p.lp,
                            wins |-> p.wins, losses |-> p.losses]>>,
     matches    |-> matches,
     statistics |-> IF Len(matches) > 0 THEN matchStatistics(matches)
                    ELSE [winRate |-> Int2Num(0), avgKDA |-> Int2Num(0),
                          avgCS |-> Int2Num(0)]]

mobalyticsMatch(m) ==
    [champion_name |-> m.champion, win |-> m.win, kills |-> m.kills,
     deaths |-> m.deaths, assists |-> m.assists, cs_per_minute |-> Int2Num(m.cspm),
     cs |-> MathRound(Mul(Int2Num(m.cspm), Int2Num(15))).n]

scrapeMobalyticsResult(p) ==
    LET matches == [k \in 1..Len(p.matches) |-> mobalyticsMatch(p.matches[k])] IN
    [source     |-> MOBALYTICS,
     ranked     |-> IF p.tier = "Unranked" THEN <<>>
                    ELSE <<[queue |-> SOLO_QUEUE, tier |-> p.tier,
                            rank |-> p.division, leaguePoints |-> p.lp,
                            wins |-> p.wins, losses |-> p.losses]>>,
     matches    |-> matches,
     statistics |->
        IF Len(matches) > 0
        THEN [winRate |-> Div(Int2Num(winCount(matches)), Int2Num(Len(matches))),
              avgKDA  |-> Div(Add(SumSeq(fieldValues(matches, "kills")),
                                  SumSeq(fieldValues(matches, "assists"))),
                              MathMax(SumSeq(fieldValues(matches, "deaths")), Int2Num(1))),
              avgCS   |-> Div(SumSeq(fieldValues(matches, "cs")), Int2Num(Len(matches)))]
        ELSE [winRate |-> Int2Num(0), avgKDA |-> Int2Num(0), avgCS |-> Int2Num(0)]]

logMatch(m) ==
    [champion |-> m.champion,
     kda      |-> [kills |-> m.kills, deaths |-> m.deaths, assists |-> m.assists],
     result   |-> IF m.win THEN "Victory" ELSE "Defeat",
     cs       |-> m.cspm * (GameDuration \div 60)]

\* the average per game that the page shows for a field of the matches
pageAverage(matches, f) ==
    IF Len(matches) > 0
    THEN Div(SumSeq(fieldValues(matches, f)), Int2Num(Len(matches)))
    ELSE Int2Num(0)

\* the page shows the averages per game of kills, deaths and assists, and one
\* box per game with its CS and duration
scrapeLeagueOfGraphsResult(p) ==
    LET n          == Len(p.matches)
        kills      == pageAverage(p.matches, "kills")
        deaths     == pageAverage(p.matches, "deaths")
        assists    == pageAverage(p.matches, "assists")
        totalGames == p.wins + p.losses
    IN
    [source     |-> LEAGUE_OF_GRAPHS,
     ranked     |-> <<[queueType |-> SOLO_QUEUE, tier |-> p.tier,
                       rank |-> IF p.tier = "Unranked" THEN "" ELSE p.division,
                       leaguePoints |-> IF p.tier = "Unranked" THEN 0 ELSE p.lp,
                       wins |-> p.wins, losses |-> p.losses]>>,
     matches    |-> [k \in 1..n |-> logMatch(p.matches[k])],
     statistics |->
        [totalGames |-> totalGames,
         winRate    |-> IF totalGames > 0
                        THEN toFixed(Div(Int2Num(p.wins), Int2Num(totalGames)), 3)
                        ELSE Int2Num(0),
         avgKDA     |-> IF Less(Int2Num(0), deaths)
                        THEN toFixed(Div(Add(kills, assists), deaths), 2)
                        ELSE toFixed(Add(kills, assists), 2),
         avgCS      |-> toFixed(pageAverage(p.matches, "cspm"), 1),
         kda        |-> [kills |-> kills, deaths |-> deaths, assists |-> assists]]]

\* what the adapter of the source returns for the player
adapterResult(source, p) ==
    CASE source = RIOT_API         -> fetchFromRiotApiResult(p)
      [] source = OPGG             -> scrapeOPGGResult(p)
      [] source = MOBALYTICS       -> scrapeMobalyticsResult(p)
      [] source = LEAGUE_OF_GRAPHS -> scrapeLeagueOfGraphsResult(p)

-----------------------------------------------------------------------------
(* The score *)

rankBonus(tier) ==
    CASE tier = "CHALLENGER"  -> 25
      [] tier = "GRANDMASTER" -> 23
      [] tier = "MASTER"      -> 20
      [] tier = "DIAMOND"     -> 15
      [] tier = "PLATINUM"    -> 10
      [] tier = "GOLD"        -> 5
      [] tier = "SILVER"      -> 2
      [] tier = "BRONZE"      -> 0
      [] tier = "IRON"        -> -5
      [] OTHER                -> 0

isSoloQueue(e) == "queueType" \in DOMAIN e /\ e.queueType = SOLO_QUEUE

calculateOPScore(matchData, rankedData) ==
    LET solo == {k \in 1..Len(rankedData) : isSoloQueue(rankedData[k])}
        rankedPart ==
            IF solo # {}
            THEN LET soloQueue == rankedData[CHOOSE k \in solo : \A j \in solo : k <= j]
                     winRate   == Div(intField(soloQueue, "wins"),
                                      Add(intField(soloQueue, "wins"),
                                          intField(soloQueue, "losses")))
                 IN Add(Mul(winRate, Int2Num(30)), Int2Num(rankBonus(soloQueue.tier)))
            ELSE Int2Num(0)
        recentMatches == SubSeq(matchData, 1, IF Len(matchData) < 10 THEN Len(matchData) ELSE 10)
        len == Int2Num(Len(recentMatches))
        matchPart ==
            IF Len(matchData) > 0
            THEN LET avgKDA == Div(SumSeq(kdaPerMatch(recentMatches)), len)
                     avgCS  == Div(SumSeq(csPerMatch(recentMatches)), len)
                 IN Add(MathMin(Mul(avgKDA, Int2Num(8)), Int2Num(25)),
                        MathMin(Mul(avgCS, Int2Num(2)), Int2Num(15)))
            ELSE Int2Num(0)
        opScore == Add(Add(Int2Num(50), rankedPart), matchPart)
    IN MathMin(MathMax(MathRound(opScore), Int2Num(0)), Int2Num(100))

-----------------------------------------------------------------------------
(* Insights *)

Insight(type, title, priority) == [type |-> type, title |-> title, priority |-> priority]

\* match => match.win of the filter: a missing field is falsy
wonMatches(matches) ==
    Cardinality({k \in 1..Len(matches) : "win" \in DOMAIN matches[k] /\ matches[k].win})

\* Object.keys(championCounts): a missing champion_name counts under 'undefined'
championKeys(matches) ==
    {IF "champion_name" \in DOMAIN matches[k] THEN matches[k].champion_name ELSE UNDEFINED :
        k \in 1..Len(matches)}

InsightWindow == 20
ChampionPoolThreshold == 16

\* the rules of generateInsights over the matches they are given
insightRules(recentMatches) ==
    LET len      == Int2Num(Len(recentMatches))
        winRate  == Div(Int2Num(wonMatches(recentMatches)), len)
        avgKDA   == Div(SumSeq(kdaPerMatch(recentMatches)), len)
        avgCS    == Div(SumSeq(csPerMatch(recentMatches)), len)
        uniqueChampions == Cardinality(championKeys(recentMatches))
    IN  (IF Less(winRate, Rat(2, 5))
         THEN <<Insight("performance", "Focus on Consistency", 1)>>
         ELSE IF Less(Rat(7, 10), winRate)
         THEN <<Insight("performance", "Great Win Streak!", 1)>>
         ELSE <<>>)
        \o
        (IF Less(avgKDA, Rat(3, 2))
         THEN <<Insight("gameplay", "Improve Your KDA", 2)>>
         ELSE IF Less(Int2Num(4), avgKDA)
         THEN <<Insight("gameplay", "Excellent KDA", 3)>>
         ELSE <<>>)
        \o
        (IF Less(avgCS, Int2Num(5))
         THEN <<Insight("farming", "Improve Your Farming", 1)>>
         ELSE IF Less(Int2Num(7), avgCS)
         THEN <<Insight("farming", "Excellent Farming", 3)>>
         ELSE <<>>)
        \o
        (IF uniqueChampions < ChampionPoolThreshold
         THEN <<Insight("champion", "Expand Your Champion Pool", 2)>>
         ELSE <<>>)

\* generateInsights without the slice: the rules over the whole match list
generateInsightsWholeList(matchData) ==
    IF Len(matchData) = 0
    THEN <<Insight("general", "No Recent Match Data", 1)>>
    ELSE insightRules(matchData)

\* generateInsights(summonerData, matchData, rankedData); only matchData is read
generateInsights(matchData) ==
    IF Len(matchData) = 0
    THEN <<Insight("general", "No Recent Match Data", 1)>>
    ELSE insightRules(SubSeq(matchData, 1,
                             IF Len(matchData) < InsightWindow THEN Len(matchData)
                             ELSE InsightWindow))

\* successfulSource.charAt(0).toUpperCase() + successfulSource.slice(1).replace('_', ' ')
sourceTitle(src) ==
    CASE src = OPGG             -> "Using Opgg"
      [] src = MOBALYTICS       -> "Using Mobalytics"
      [] src = LEAGUE_OF_GRAPHS -> "Using League of_graphs"
      [] src = RIOT_API         -> "Using Riot api"

\* scrapedInsights of the handler: the data-source notice, and a performance
\* insight from statistics.winRate (typeof NaN is 'number'; NaN compares false)
scrapedInsights(data, src) ==
    <<Insight("data_source", sourceTitle(src), 3)>>
    \o
    (IF "statistics" \in DOMAIN data /\ "winRate" \in DOMAIN data.statistics
     THEN IF Less(Rat(3, 5), data.statistics.winRate)
          THEN <<Insight("performance", "Strong Performance", 1)>>
          ELSE IF Less(data.statistics.winRate, Rat(2, 5))
          THEN <<Insight("performance", "Room for Improvement", 1)>>
          ELSE <<>>
     ELSE <<>>)

-----------------------------------------------------------------------------
(* Responses *)

NoResponse == [status |-> 0]
NullData   == [source |-> NULL]

Last(seq) == seq[Len(seq)]
Elems(seq) == {seq[k] : k \in 1..Len(seq)}

\* res.status(400).json(...)
BadRequest == [status |-> 400, error |-> "Missing required fields"]

\* res.json of the static fallback branch of the loop-based server
DegradedProfile(fs) ==
    [status        |-> 200,
     error         |-> "Limited static data only",
     ranked        |-> <<>>,
     matches       |-> <<>>,
     insights      |-> <<[type |-> "error", priority |-> 1]>>,
     opScore       |-> 0,
     dataSource    |-> DATA_DRAGON,
     failedSources |-> fs]

\* res.json of the Data Dragon branch of the nested server: no failedSources field
NestedDegradedProfile ==
    [status     |-> 200,
     error      |-> "Limited static data only",
     ranked     |-> <<>>,
     matches    |-> <<>>,
     insights   |-> <<[type |-> "error", priority |-> 1]>>,
     opScore    |-> 0,
     dataSource |-> DATA_DRAGON]

\* a 503 envelope that loses the failed sources
TotalFailureNoSources(fs) ==
    [status |-> 503, error |-> "All data sources unavailable", failedSources |-> <<>>]

\* res.status(503).json(...)
TotalFailure(fs) ==
    [status |-> 503, error |-> "All data sources unavailable", failedSources |-> fs]

\* res.status(500).json(...) of the outer catch
ServerError == [status |-> 500, error |-> "Failed to fetch summoner data"]

\* normalizedResponse
NormalizedResponse(data, src, fs) ==
    [status        |-> 200,
     ranked        |-> data.ranked,
     matches       |-> data.matches,
     insights      |-> scrapedInsights(data, src),
     opScore       |-> calculateOPScore(data.matches, data.ranked),
     statistics    |-> data.statistics,
     dataSource    |-> src,
     failedSources |-> fs]

\* logError(source, operation, error, additionalData): one entry per call
logError(log, source, operation) ==
    Append(log, [source |-> source, operation |-> operation])

Send(r) == /\ response' = r
           /\ sent' = sent + 1

-----------------------------------------------------------------------------
(* Initial state: a request arrives at one of the two servers *)

Init ==
    /\ server \in {"loop", "nested"}
    /\ body \in [valid : BOOLEAN, dataSource : DataSourceInputs,
                 useRiotApi : BOOLEAN, region : {"na"}]
    /\ apiKey \in BOOLEAN
    /\ player \in MainPlayers
    /\ pc = "start"
    /\ sourcesToTry = <<>>
    /\ pos = 1
    /\ failedSources = <<>>
    /\ successfulSource = NULL
    /\ scrapedData = NullData
    /\ invoked = <<>>
    /\ regionArgs = <<>>
    /\ endpoint = 0
    /\ retryCount = 0
    /\ httpCalls = 0
    /\ lastOutcome = NULL
    /\ lastError = NULL
    /\ delay = 0
    /\ matchCount = 0
    /\ saveStep = 0
    /\ response = NoResponse
    /\ sent = 0
    /\ errorLog = <<>>
    /\ retryAfterHeader = NoHeader
    /\ profileMatches = <<>>
    /\ insights = <<>>
    /\ tbody = <<>>
    /\ added = {}
    /\ savedAt = <<>>
    /\ calls = <<>>
    /\ returned = [op |-> NULL]
    /\ now = 1
    /\ localStorage = <<>>
    /\ indexedDB = [summoners |-> <<>>, settings |-> <<>>]
    /\ db = NULL
    /\ isIndexedDBSupported = FALSE
    /\ savers = <<>>
    /\ tables = [summoners |-> {}, ranked_stats |-> <<>>, insights |-> <<>>]
    /\ requests = <<>>

-----------------------------------------------------------------------------
(* The handler of the loop-based server *)

\* validation and construction of sourcesToTry, up to the head of the for loop
LoopHandleRequest ==
    /\ pc = "start"
    /\ server = "loop"
    /\ IF ~body.valid
       THEN /\ Send(BadRequest)
            /\ pc' = "done"
            /\ UNCHANGED sourcesToTry
       ELSE /\ sourcesToTry' = buildSourcesToTry(body.dataSource, body.useRiotApi)
            /\ pc' = IF sourcesToTry' = <<>> THEN "after" ELSE "loop"
            /\ UNCHANGED respVars
    /\ UNCHANGED <<reqVars, errorLog, pos, failedSources, successfulSource, scrapedData,
                   invoked, regionArgs, adapterVars, saveStep>>

\* the success path of an iteration without its break
LoopSuccessNoBreak(source) ==
    /\ scrapedData' = adapterResult(source, player)
    /\ successfulSource' = source
    /\ pos' = pos + 1
    /\ pc' = IF pos + 1 > Len(sourcesToTry) THEN "after" ELSE "loop"
    /\ UNCHANGED <<sourcesToTry, failedSources>>

\* the success path of an iteration that also records the source as failed
LoopSuccessRecorded(source) ==
    /\ scrapedData' = adapterResult(source, player)
    /\ successfulSource' = source
    /\ failedSources' = Append(failedSources, source)
    /\ pc' = "after"
    /\ UNCHANGED <<sourcesToTry, pos>>

\* the adapter returned: scrapedData and successfulSource are set, break
LoopSuccess(source) ==
    /\ scrapedData' = adapterResult(source, player)
    /\ successfulSource' = source
    /\ pc' = "after"
    /\ UNCHANGED <<sourcesToTry, pos, failedSources>>

\* a catch block that drops the failed source
LoopFailureDropped(source) ==
    /\ pos' = pos + 1
    /\ pc' = IF pos + 1 > Len(sourcesToTry) THEN "after" ELSE "loop"
    /\ UNCHANGED <<sourcesToTry, failedSources, successfulSource, scrapedData>>

\* the adapter threw: catch block of the iteration, then the next iteration
LoopFailure(source) ==
    /\ failedSources' = Append(failedSources, source)
    /\ pos' = pos + 1
    /\ pc' = IF pos + 1 > Len(sourcesToTry) THEN "after" ELSE "loop"
    /\ UNCHANGED <<sourcesToTry, successfulSource, scrapedData>>

\* the adapter call of one iteration, up to its first await
LoopTrySource ==
    /\ pc = "loop"
    /\ server = "loop"
    /\ pos <= Len(sourcesToTry)
    /\ LET source == sourcesToTry[pos] IN
       /\ invoked' = Append(invoked, source)
       /\ regionArgs' = Append(regionArgs, body.region)
       /\ lastOutcome' = NULL
       /\ lastError' = IF source = RIOT_API /\ ~apiKey THEN "Riot API key not configured"
                                                     ELSE NULL
       /\ retryCount' = 0
       /\ IF source = RIOT_API /\ ~apiKey
          THEN \* fetchFromRiotApi throws 'Riot API key not configured'
               /\ LoopFailure(source)
               /\ endpoint' = 0
               /\ httpCalls' = 0
          ELSE /\ pc' = "http"
               /\ endpoint' = 1
               /\ httpCalls' = 1
               /\ UNCHANGED orchVars
    /\ UNCHANGED <<reqVars, errorLog, delay, matchCount, retryAfterHeader, saveStep, respVars>>

\* after the loop: static fallback when nothing succeeded, else the persistence block
LoopAfter ==
    /\ pc = "after"
    /\ server = "loop"
    /\ IF scrapedData = NullData \/ successfulSource = NULL
       THEN /\ pc' = "static"
            /\ invoked' = Append(invoked, DATA_DRAGON)
            /\ regionArgs' = Append(regionArgs, UNDEFINED)
            /\ UNCHANGED saveStep
       ELSE /\ pc' = "persist"
            /\ saveStep' = 1
            /\ UNCHANGED <<invoked, regionArgs>>
    /\ UNCHANGED <<reqVars, errorLog, orchVars, adapterVars, respVars>>

\* fetchFromDataDragon settles (both requests of Promise.all): degraded profile or 503
LoopStaticReturn ==
    /\ pc = "static"
    /\ server = "loop"
    /\ \E champsOk \in BOOLEAN, itemsOk \in BOOLEAN :
         IF champsOk /\ itemsOk
         THEN /\ Send(DegradedProfile(failedSources))
              /\ lastOutcome' = "ok"
              /\ lastError' = NULL
              /\ UNCHANGED errorLog
         ELSE /\ Send(TotalFailure(failedSources))
              /\ lastOutcome' = "error"
              /\ lastError' = "Network Error"
              /\ errorLog' = logError(errorLog, "ALL_SOURCES", "COMPLETE_FAILURE")
    /\ pc' = "done"
    /\ UNCHANGED <<reqVars, orchVars, invoked, regionArgs, endpoint, retryCount, httpCalls,
                   delay, matchCount, retryAfterHeader, saveStep>>

-----------------------------------------------------------------------------
(* The handler of the nested server *)

nestedSource(depth) ==
    CASE depth = 1 -> OPGG
      [] depth = 2 -> MOBALYTICS
      [] depth = 3 -> LEAGUE_OF_GRAPHS

\* validation, then the first try block
NestedHandleRequest ==
    /\ pc = "start"
    /\ server = "nested"
    /\ IF ~body.valid
       THEN /\ Send(BadRequest)
            /\ pc' = "done"
       ELSE /\ pc' = "nested"
            /\ UNCHANGED respVars
    /\ UNCHANGED <<reqVars, errorLog, orchVars, invoked, regionArgs, adapterVars, saveStep>>

\* the scraper call of the try block at nesting depth pos
NestedTrySource ==
    /\ pc = "nested"
    /\ server = "nested"
    /\ invoked' = Append(invoked, nestedSource(pos))
    /\ regionArgs' = Append(regionArgs, body.region)
    /\ pc' = "http"
    /\ endpoint' = 1
    /\ httpCalls' = 1
    /\ retryCount' = 0
    /\ lastOutcome' = NULL
    /\ lastError' = NULL
    /\ UNCHANGED <<reqVars, errorLog, orchVars, delay, matchCount, retryAfterHeader, saveStep, respVars>>

\* the scraper returned
NestedSuccess(source) ==
    /\ scrapedData' = adapterResult(source, player)
    /\ successfulSource' = source
    /\ pc' = "after"
    /\ UNCHANGED <<sourcesToTry, pos, failedSources>>

\* the scraper threw: catch block, which holds the next try block
NestedFailure(source) ==
    /\ failedSources' = Append(failedSources, source)
    /\ pos' = pos + 1
    /\ pc' = IF source = LEAGUE_OF_GRAPHS THEN "dragon" ELSE "nested"
    /\ UNCHANGED <<sourcesToTry, successfulSource, scrapedData>>

\* the innermost try block calls fetchFromDataDragon
NestedTryDragon ==
    /\ pc = "dragon"
    /\ server = "nested"
    /\ invoked' = Append(invoked, DATA_DRAGON)
    /\ regionArgs' = Append(regionArgs, UNDEFINED)
    /\ pc' = "static"
    /\ UNCHANGED <<reqVars, errorLog, orchVars, adapterVars, saveStep, respVars>>

\* fetchFromDataDragon settles. On failure the catch block calls logError, which
\* is the Error bound by the enclosing catch (logError): the TypeError reaches
\* the outer catch and the answer is the 500 envelope.
NestedStaticReturn ==
    /\ pc = "static"
    /\ server = "nested"
    /\ \E champsOk \in BOOLEAN, itemsOk \in BOOLEAN :
         IF champsOk /\ itemsOk
         THEN /\ Send(NestedDegradedProfile)
              /\ lastOutcome' = "ok"
              /\ lastError' = NULL
         ELSE /\ Send(ServerError)
              /\ lastOutcome' = "error"
              /\ lastError' = "Network Error"
    /\ pc' = "done"
    /\ UNCHANGED <<reqVars, errorLog, orchVars, invoked, regionArgs, endpoint, retryCount, httpCalls,
                   delay, matchCount, retryAfterHeader, saveStep>>

\* after the try blocks: persistence block when a scraper succeeded, else 503
NestedAfter ==
    /\ pc = "after"
    /\ server = "nested"
    /\ IF scrapedData # NullData /\ successfulSource # NULL
       THEN /\ pc' = "persist"
            /\ saveStep' = 1
            /\ UNCHANGED respVars
       ELSE /\ pc' = "done"
            /\ Send(TotalFailure(failedSources))
            /\ UNCHANGED saveStep
    /\ UNCHANGED <<reqVars, errorLog, orchVars, invoked, regionArgs, adapterVars>>

-----------------------------------------------------------------------------
(* The adapters *)

\* the catch block of the adapter starts with a logError call: the three
\* scrapers; makeRiotAPICall and fetchFromRiotApi have none
logsFailure(source) == source \in Scrapers

AdapterReturns(source) ==
    /\ IF server = "loop" THEN LoopSuccess(source) ELSE NestedSuccess(source)
    /\ UNCHANGED <<endpoint, retryCount, httpCalls, delay, matchCount>>

AdapterThrows(source) ==
    /\ IF server = "loop" THEN LoopFailure(source) ELSE NestedFailure(source)
    /\ UNCHANGED <<endpoint, retryCount, httpCalls, delay, matchCount>>

\* the HTTP call in flight settles: return, throw, next endpoint, or retry
HttpReturn ==
    /\ pc = "http"
    /\ LET source == Last(invoked) IN
       \E o \in Outcomes, retryAfter \in RetryAfterValues, wellFormed \in BOOLEAN :
         \* the match-id list holds the player's recent matches (count = 10)
         LET n == Len(player.matches) IN
         /\ lastOutcome' = o
         /\ lastError' = IF attemptFails(source, o) THEN errorMessage(source, o)
                         ELSE IF source = RIOT_API /\ ~wellFormed
                         THEN "Cannot read properties of undefined"
                         ELSE NULL
         /\ retryAfterHeader' = IF source = RIOT_API /\ o = "429" THEN retryAfter
                                                                  ELSE NoHeader
         /\ errorLog' = IF attemptFails(source, o) /\ logsFailure(source)
                         THEN logError(errorLog, source, "SCRAPE_SUMMONER")
                         ELSE errorLog
         /\ IF attemptFails(source, o)
            THEN IF shouldRetry(source, o, retryCount)
                 THEN IF waitsBeforeRetry(server, source)
                      THEN /\ pc' = "wait"
                           /\ delay' = retryDelay(server, source, o, retryCount, retryAfter)
                           /\ UNCHANGED <<orchVars, endpoint, retryCount, httpCalls, matchCount>>
                      ELSE \* recursive call at once
                           /\ retryCount' = retryCount + 1
                           /\ httpCalls' = httpCalls + 1
                           /\ UNCHANGED <<pc, orchVars, endpoint, delay, matchCount>>
                 ELSE AdapterThrows(source)
            ELSE IF source = RIOT_API
                 THEN IF ~wellFormed
                      THEN \* a field of the payload is missing: TypeError
                           AdapterThrows(source)
                      ELSE LET ids == IF endpoint = RiotFixedEndpoints THEN n ELSE matchCount IN
                           IF endpoint < lastEndpoint(source, ids)
                           THEN /\ endpoint' = endpoint + 1
                                /\ matchCount' = ids
                                /\ retryCount' = 0
                                /\ httpCalls' = 1
                                /\ UNCHANGED <<pc, orchVars, delay>>
                           ELSE /\ IF server = "loop" THEN LoopSuccess(source)
                                                      ELSE NestedSuccess(source)
                                /\ matchCount' = ids
                                /\ UNCHANGED <<endpoint, retryCount, httpCalls, delay>>
                 ELSE AdapterReturns(source)
    /\ UNCHANGED <<reqVars, invoked, regionArgs, saveStep, respVars>>

\* the timer of the catch block fires: recursive call with retryCount + 1
RetryAfterWait ==
    /\ pc = "wait"
    /\ pc' = "http"
    /\ retryCount' = retryCount + 1
    /\ httpCalls' = httpCalls + 1
    /\ delay' = 0
    /\ retryAfterHeader' = NoHeader
    /\ UNCHANGED <<reqVars, errorLog, orchVars, invoked, regionArgs, endpoint, lastOutcome, lastError,
                   matchCount,
                   saveStep, respVars>>

-----------------------------------------------------------------------------
(* Persistence block and the response *)

\* a persistence block without its own try/catch: a rejected save reaches the
\* outer catch
PersistRethrows ==
    /\ pc = "persist"
    /\ \E ok \in BOOLEAN :
         IF ok /\ saveStep < 3
         THEN /\ saveStep' = saveStep + 1
              /\ UNCHANGED <<pc, respVars>>
         ELSE /\ IF ok
                 THEN Send(NormalizedResponse(scrapedData, successfulSource, failedSources))
                 ELSE Send(ServerError)
              /\ pc' = "done"
              /\ UNCHANGED saveStep
    /\ UNCHANGED <<reqVars, errorLog, orchVars, invoked, regionArgs, adapterVars>>

\* saveSummonerData, saveRankedStats, saveInsights are awaited in turn; a
\* rejection goes to the catch; then res.json(normalizedResponse)
Persist ==
    /\ pc = "persist"
    /\ \E ok \in BOOLEAN :
         IF ok /\ saveStep < 3
         THEN /\ saveStep' = saveStep + 1
              /\ UNCHANGED <<pc, respVars>>
         ELSE /\ Send(NormalizedResponse(scrapedData, successfulSource, failedSources))
              /\ pc' = "done"
              /\ UNCHANGED saveStep
    /\ UNCHANGED <<reqVars, errorLog, orchVars, invoked, regionArgs, adapterVars>>

-----------------------------------------------------------------------------

Next ==
    \/ LoopHandleRequest
    \/ LoopTrySource
    \/ LoopAfter
    \/ LoopStaticReturn
    \/ NestedHandleRequest
    \/ NestedTrySource
    \/ NestedTryDragon
    \/ NestedStaticReturn
    \/ NestedAfter
    \/ HttpReturn
    \/ RetryAfterWait
    \/ Persist

Spec == Init /\ [][Next]_vars

\* every HTTP call settles, every timer fires, every database callback is called
FairSpec == Spec /\ WF_vars(Next)

\* requests for one source each to the loop-based server, for every player
DataInit ==
    /\ server = "loop"
    /\ body \in [valid : {TRUE}, dataSource : {OPGG, MOBALYTICS, LEAGUE_OF_GRAPHS, RIOT_API},
                 useRiotApi : {TRUE}, region : Regions]
    /\ apiKey = TRUE
    /\ player \in Players
    /\ pc = "start"
    /\ sourcesToTry = <<>>
    /\ pos = 1
    /\ failedSources = <<>>
    /\ successfulSource = NULL
    /\ scrapedData = NullData
    /\ invoked = <<>>
    /\ regionArgs = <<>>
    /\ endpoint = 0
    /\ retryCount = 0
    /\ httpCalls = 0
    /\ lastOutcome = NULL
    /\ lastError = NULL
    /\ delay = 0
    /\ matchCount = 0
    /\ saveStep = 0
    /\ response = NoResponse
    /\ sent = 0
    /\ errorLog = <<>>
    /\ retryAfterHeader = NoHeader
    /\ profileMatches = <<>>
    /\ insights = <<>>
    /\ tbody = <<>>
    /\ added = {}
    /\ savedAt = <<>>
    /\ calls = <<>>
    /\ returned = [op |-> NULL]
    /\ now = 1
    /\ localStorage = <<>>
    /\ indexedDB = [summoners |-> <<>>, settings |-> <<>>]
    /\ db = NULL
    /\ isIndexedDBSupported = FALSE
    /\ savers = <<>>
    /\ tables = [summoners |-> {}, ranked_stats |-> <<>>, insights |-> <<>>]
    /\ requests = <<>>

DataNext ==
    \/ LoopHandleRequest
    \/ LoopTrySource
    \/ LoopAfter
    \/ LoopStaticReturn
    \/ HttpReturn
    \/ RetryAfterWait
    \/ Persist

DataSpec == DataInit /\ [][DataNext]_vars

-----------------------------------------------------------------------------
(* Properties of the failover orchestrator *)

IsPrefix(a, b) == Len(a) <= Len(b) /\ SubSeq(b, 1, Len(a)) = a
NoDup(seq) == \A j, k \in 1..Len(seq) : seq[j] = seq[k] => j = k

\* the sources the handler has attempted, in attempt order
attempted == SelectSeq(invoked, LAMBDA s : s # DATA_DRAGON)

\* C1: once the adapter call of a source has succeeded, the handler invokes no
\* further adapter (no later source of the attempt list, nor the static-data
\* adapter): the successful source stays the last adapter invoked.
C1_StopOnSuccess ==
    /\ [][successfulSource # NULL => invoked' = invoked]_vars
    /\ [](successfulSource # NULL => Last(invoked) = successfulSource)

\* a request ended with a success at a position that is not the last of the list
C1_Witness ==
    /\ server = "loop"
    /\ pc = "done"
    /\ successfulSource # NULL
    /\ pos < Len(sourcesToTry)
    /\ Len(failedSources) >= 1

\* C2: in every 200 response (normal or degraded) that carries failedSources,
\* the value of dataSource is not an element of failedSources.
C2_DataSourceNotFailed ==
    (response.status = 200 /\ "failedSources" \in DOMAIN response)
        => response.dataSource \notin Elems(response.failedSources)

\* a normal success answered after two sources failed
C2_Witness ==
    /\ server = "loop"
    /\ response.status = 200
    /\ response.dataSource \in Scrapers
    /\ Len(response.failedSources) = 2

\* C3: failedSources only grows by appending and, when the loop-based handler
\* has answered, it is the sequence of sources whose adapter call failed: the
\* prefix of the attempt list before the successful source, or the whole
\* attempt list when no source succeeded.
C3_FailedSourcesExact ==
    /\ [][IsPrefix(failedSources, failedSources')]_vars
    /\ []((server = "loop" /\ pc = "done" /\ body.valid) =>
            /\ response.failedSources = failedSources
            /\ failedSources = SelectSeq(attempted, LAMBDA s : s # successfulSource)
            /\ IF successfulSource # NULL
               THEN /\ sourcesToTry[pos] = successfulSource
                    /\ failedSources = SubSeq(sourcesToTry, 1, pos - 1)
               ELSE failedSources = sourcesToTry)

\* the third source of a four-source list succeeded
C3_Witness ==
    /\ server = "loop"
    /\ pc = "done"
    /\ Len(sourcesToTry) = 4
    /\ successfulSource = MOBALYTICS
    /\ failedSources = <<RIOT_API, OPGG>>

\* the request reached the attempt list of the loop-based handler
listBuilt == server = "loop" /\ body.valid /\ pc # "start"

NonStaticSources == {OPGG, MOBALYTICS, LEAGUE_OF_GRAPHS, RIOT_API}

\* C4 as stated: when dataSource names one non-static source, the attempt list
\* is exactly that source, for both values of useRiotApi.
C4_Original ==
    (listBuilt /\ normalizedSource(body.dataSource) \in NonStaticSources)
        => sourcesToTry = <<normalizedSource(body.dataSource)>>

\* C4: when dataSource names opgg, mobalytics or league_of_graphs, the attempt
\* list is exactly that source for both values of useRiotApi; when it names
\* riot_api, the list is that source if useRiotApi is true and empty otherwise.
C4_SingleSource ==
    (listBuilt /\ normalizedSource(body.dataSource) \in NonStaticSources)
        => sourcesToTry =
             IF normalizedSource(body.dataSource) = RIOT_API /\ ~body.useRiotApi
             THEN <<>>
             ELSE <<normalizedSource(body.dataSource)>>

\* one scraping source was requested with useRiotApi set, and it is being called
C4_Witness ==
    /\ listBuilt
    /\ body.dataSource = "mobalytics"
    /\ body.useRiotApi
    /\ pc = "http"
    /\ invoked = <<MOBALYTICS>>

\* C5: for dataSource 'all' the attempt list is riot_api first iff useRiotApi,
\* followed by opgg, mobalytics, league_of_graphs; it is a function of these
\* two request fields only.
C5_AllOrder ==
    (listBuilt /\ normalizedSource(body.dataSource) = "all")
        => sourcesToTry =
             (IF body.useRiotApi THEN <<RIOT_API>> ELSE <<>>)
                 \o <<OPGG, MOBALYTICS, LEAGUE_OF_GRAPHS>>

\* the four sources of an 'all' request were called in list order
C5_Witness ==
    /\ listBuilt
    /\ normalizedSource(body.dataSource) = "all"
    /\ body.useRiotApi
    /\ apiKey
    /\ invoked = <<RIOT_API, OPGG, MOBALYTICS, LEAGUE_OF_GRAPHS>>

\* C6: no source occurs twice in the attempt list or among the adapters the
\* handler has called, and the handler never calls the adapter of a source it
\* has recorded in failedSources.
C6_AtMostOnce ==
    /\ [](NoDup(sourcesToTry) /\ NoDup(invoked))
    /\ [][invoked' # invoked => Last(invoked') \notin Elems(failedSources)]_vars

\* a third adapter is being called after two sources were recorded as failed
C6_Witness ==
    /\ pc = "http"
    /\ Len(failedSources) = 2
    /\ Len(invoked) = 3

\* C7 as stated: when every attempted source failed and the static-data adapter
\* succeeded, the response is the degraded profile (dataSource data_dragon,
\* no matches, no ranked entries, one insight of type 'error') and its
\* failedSources is the sequence of attempted sources.
C7_Degraded ==
    (pc = "done" /\ invoked # <<>> /\ Last(invoked) = DATA_DRAGON /\ lastOutcome = "ok")
        => /\ response.status = 200
           /\ response.dataSource = DATA_DRAGON
           /\ response.matches = <<>>
           /\ response.ranked = <<>>
           /\ Len(response.insights) = 1
           /\ response.insights[1].type = "error"
           /\ "failedSources" \in DOMAIN response
           /\ response.failedSources = attempted

\* C8: when every attempted source and the static-data adapter failed, the
\* loop-based handler answers 503 with the TotalFailure envelope, whose
\* failedSources is the sequence of all attempted sources.
C8_TotalFailure ==
    (server = "loop" /\ pc = "done" /\ invoked # <<>>
        /\ Last(invoked) = DATA_DRAGON /\ lastOutcome # "ok")
        => /\ response.status = 503
           /\ response.error = "All data sources unavailable"
           /\ response.failedSources = attempted
           /\ response.failedSources = sourcesToTry

\* four sources and the static-data adapter failed
C8_Witness ==
    /\ server = "loop"
    /\ pc = "done"
    /\ response.status = 503
    /\ Len(sourcesToTry) = 4
    /\ Last(invoked) = DATA_DRAGON

DONE          == response.status = 200 /\ successfulSource # NULL
                    /\ response.dataSource = successfulSource
DONE_DEGRADED == response.status = 200 /\ successfulSource = NULL
                    /\ response.dataSource = DATA_DRAGON
TOTAL_FAILURE == response.status = 503

\* C9: every request eventually reaches a terminal state and is answered
\* exactly once; a valid request of the loop-based handler ends in exactly one
\* of DONE, DONE_DEGRADED and TOTAL_FAILURE; the static fallback is entered
\* only after the attempt list is exhausted without a success.
C9_Termination ==
    /\ <>(pc = "done")
    /\ [](sent = IF pc = "done" THEN 1 ELSE 0)
    /\ []((server = "loop" /\ body.valid /\ pc = "done") =>
             Cardinality({t \in {"DONE", "DONE_DEGRADED", "TOTAL_FAILURE"} :
                 \/ t = "DONE" /\ DONE
                 \/ t = "DONE_DEGRADED" /\ DONE_DEGRADED
                 \/ t = "TOTAL_FAILURE" /\ TOTAL_FAILURE}) = 1)
    /\ []((server = "loop" /\ pc = "static") =>
             /\ successfulSource = NULL
             /\ pos = Len(sourcesToTry) + 1
             /\ failedSources = sourcesToTry)

\* a request was answered with the normal profile although a save was rejected
C9_Witness ==
    /\ server = "loop"
    /\ pc = "done"
    /\ DONE
    /\ saveStep = 2

claimedMaxAttempts(src) == IF src = RIOT_API THEN 5 ELSE 3

\* C10 as stated: at most 3 HTTP calls per invocation of a scraper and 5 per
\* endpoint of the authenticated API.
C10_Original ==
    pc \in {"http", "wait"} => httpCalls <= claimedMaxAttempts(Last(invoked))

\* C10: one adapter invocation makes at most maxRetries + 1 HTTP calls to the
\* same endpoint (4 for a scraper, 6 for the authenticated API), and a further
\* call to an endpoint is made only after the previous call to it failed.
C10_RetryBound ==
    /\ [](pc \in {"http", "wait"} => httpCalls <= maxRetries(Last(invoked)) + 1)
    /\ [][(httpCalls' > httpCalls /\ endpoint' = endpoint /\ invoked' = invoked)
            => attemptFails(Last(invoked), lastOutcome')]_vars

\* the sixth call to one endpoint of the authenticated API is in flight
C10_Witness ==
    /\ pc = "http"
    /\ Last(invoked) = RIOT_API
    /\ httpCalls = RiotMaxRetries + 1

-----------------------------------------------------------------------------
(* Error handling of the adapters *)

ClientErrors    == {"404", "4xx"}
TransientErrors == {"ECONNABORTED", "ETIMEDOUT", "ECONNRESET", "ENOTFOUND", "5xx"}

\* C11: an answer with a 4xx status other than 429 is terminal in every
\* adapter: no further call to the source follows it and the error reaches
\* the handler, which records the source as failed.
C11_ClientErrorTerminal ==
    [][(pc = "http" /\ lastOutcome' \in ClientErrors) =>
          /\ httpCalls' = httpCalls
          /\ pc' \notin {"http", "wait"}
          /\ failedSources' = Append(failedSources, Last(invoked))]_vars

\* C12: in every adapter a timeout, a network error or a 5xx answer is
\* followed by another attempt whenever fewer than maxAttempts attempts have
\* been made.
C12_TransientRetried ==
    [][(/\ pc = "http"
        /\ lastOutcome' \in TransientErrors
        /\ httpCalls < claimedMaxAttempts(Last(invoked)))
          => (pc' = "wait" \/ httpCalls' = httpCalls + 1)]_vars

\* C13: a 429 or any other 4xx answer never makes the adapter return a
\* profile: the adapter fails (after its retries, if any) and the handler
\* records the source in failedSources.
C13_NoSuccessOnClientError ==
    [][(pc = "http" /\ lastOutcome' \in ClientErrors \cup {"429"}) =>
          /\ successfulSource' = NULL
          /\ \/ pc' = "wait"
             \/ httpCalls' = httpCalls + 1
             \/ failedSources' = Append(failedSources, Last(invoked))]_vars

\* C14: when the payload of a successful answer cannot be mapped (the adapter
\* throws although the call succeeded), the failure is reported to the failure
\* log, no further call is made, the handler records the source as failed and
\* no profile is returned.
C14_ParseFailureLogged ==
    [][(pc = "http" /\ lastOutcome' = "ok" /\ failedSources' # failedSources) =>
          /\ Len(errorLog') = Len(errorLog) + 1
          /\ Last(errorLog').source = Last(invoked)
          /\ httpCalls' = httpCalls
          /\ pc' \notin {"http", "wait"}
          /\ successfulSource' = NULL]_vars

\* C15: every failed attempt of every adapter is reported to the failure log
\* exactly once, in the step that handles the failure (before the next
\* attempt starts and before the handler sees the error).
C15_EveryFailureLogged ==
    [][(pc = "http" /\ attemptFails(Last(invoked), lastOutcome')) =>
          errorLog' = logError(errorLog, Last(invoked), "SCRAPE_SUMMONER")]_vars

\* C16: a further attempt of one adapter invocation starts only out of a
\* suspending wait of positive duration.
C16_WaitBetweenAttempts ==
    [][(httpCalls' = httpCalls + 1 /\ invoked' = invoked /\ endpoint' = endpoint) =>
          (pc = "wait" /\ delay > 0)]_vars

\* C17: after a 429 answer the wait before the next attempt is the retry-after
\* value (seconds) when the header is present, else 2^attempt * baseDelay; the
\* number of attempts stays bounded.
C17_RateLimitDelay ==
    (pc = "wait" /\ lastOutcome = "429") =>
        /\ delay = IF retryAfterHeader # NoHeader
                   THEN retryAfterHeader * 1000
                   ELSE pow2(retryCount) * RiotBaseDelay
        /\ httpCalls <= maxRetries(Last(invoked)) + 1

\* the adapters whose retry delay the claim is about
BackoffAdapters == {RIOT_API, OPGG, MOBALYTICS}

\* the wait of the adapter after its first failed attempt
firstDelay(src) == retryDelay(server, src, "ETIMEDOUT", 0, NoHeader)

C19_FireAndForget ==
    /\ pc = "persist" => sent = 1
    /\ (pc = "done" /\ successfulSource # NULL) =>
          response = NormalizedResponse(scrapedData, successfulSource, failedSources)

-----------------------------------------------------------------------------
(* Score and statistics of the returned profile *)

\* a profile of a source was returned
profileReturned == pc = "done" /\ response.status = 200 /\ successfulSource # NULL

\* C20: for every player and every source, the opScore of the returned
\* profile is an integer in [0,100] and statistics.winRate a number in [0,1].
C20_ScoreRanges ==
    profileReturned =>
        /\ IsInteger(response.opScore)
        /\ response.opScore.n \in 0..100
        /\ IsFinite(response.statistics.winRate)
        /\ ~Less(response.statistics.winRate, Int2Num(0))
        /\ ~Less(Int2Num(1), response.statistics.winRate)

-----------------------------------------------------------------------------
(* The score formula over the ranked entries of the adapters *)

\* an entry that the adapter produced for the ranked solo queue, whichever key
\* it keeps the queue under
soloQueueEntry(e) ==
    \/ "queueType" \in DOMAIN e /\ e.queueType = SOLO_QUEUE
    \/ "queue" \in DOMAIN e /\ e.queue = SOLO_QUEUE

\* the match terms of the score: min(avgKDA * 8, 25) + min(avgCS * 2, 15) over
\* the 10 most recent matches, 0 for an empty match list
matchTerms(matchData) ==
    LET recentMatches == SubSeq(matchData, 1, IF Len(matchData) < 10 THEN Len(matchData) ELSE 10)
        len == Int2Num(Len(recentMatches))
    IN IF Len(matchData) > 0
       THEN Add(MathMin(Mul(Div(SumSeq(kdaPerMatch(recentMatches)), len), Int2Num(8)),
                        Int2Num(25)),
                MathMin(Mul(Div(SumSeq(csPerMatch(recentMatches)), len), Int2Num(2)),
                        Int2Num(15)))
       ELSE Int2Num(0)

\* clamp(round(50 + winRate * 30 + tierBonus(tier) + matchTerms), 0, 100) with
\* winRate = wins / (wins + losses)
claimedOPScore(matchData, e) ==
    LET winRate == Div(intField(e, "wins"),
                       Add(intField(e, "wins"), intField(e, "losses")))
        raw     == Add(Add(Add(Int2Num(50), Mul(winRate, Int2Num(30))),
                           Int2Num(rankBonus(e.tier))),
                       matchTerms(matchData))
    IN MathMin(MathMax(MathRound(raw), Int2Num(0)), Int2Num(100))

\* C21: whenever the result of the successful source contains a ranked
\* solo-queue entry, the opScore of the returned profile is
\* clamp(round(50 + winRate * 30 + tierBonus(tier) + matchTerms), 0, 100) for
\* that entry, for the ranked entries of every adapter.
C21_ScoreFormula ==
    profileReturned =>
        \A k \in 1..Len(response.ranked) :
            soloQueueEntry(response.ranked[k]) =>
                response.opScore = claimedOPScore(response.matches, response.ranked[k])

-----------------------------------------------------------------------------
(* Insights of the returned profile *)

\* C22: when the profile has zero matches, the insights of the returned
\* profile are exactly one entry, the 'no recent match data' insight of type
\* 'general', and no threshold rule fires.
C22_NoMatchInsight ==
    (profileReturned /\ Len(response.matches) = 0) =>
        /\ Len(response.insights) = 1
        /\ response.insights[1].type = "general"
        /\ response.insights[1].title = "No Recent Match Data"

-----------------------------------------------------------------------------
(* The champion table of the page *)

\* match.champion_name || match.champion
championOf(m) ==
    IF "champion_name" \in DOMAIN m THEN m.champion_name
    ELSE IF "champion" \in DOMAIN m THEN m.champion
    ELSE UNDEFINED

\* match.champion_name
championNameOf(m) == IF "champion_name" \in DOMAIN m THEN m.champion_name ELSE UNDEFINED

\* Object.keys(champStats): the champions in the order of their first match
champKeys(names) ==
    LET firsts == {i \in 1..Len(names) : \A j \in 1..(i - 1) : names[j] # names[i]}
    IN [r \in 1..Cardinality(firsts) |->
            names[CHOOSE i \in firsts : Cardinality({j \in firsts : j < i}) = r - 1]]

fieldValuesOrZero(matches, f) == [k \in 1..Len(matches) |-> OrZero(intField(matches[k], f))]

\* match.cs_per_minute || match.cs || 0
csOf(m) ==
    IF OrZero(numField(m, "cs_per_minute")) # Int2Num(0) THEN m.cs_per_minute
    ELSE OrZero(intField(m, "cs"))

\* the row of one champion in updateChampionStats
champRow(champ, own) ==
    LET games   == Int2Num(Len(own))
        wins    == Int2Num(wonMatches(own))
        kills   == SumSeq(fieldValuesOrZero(own, "kills"))
        deaths  == SumSeq(fieldValuesOrZero(own, "deaths"))
        assists == SumSeq(fieldValuesOrZero(own, "assists"))
        csPerMin == SumSeq([k \in 1..Len(own) |-> csOf(own[k])])
        kda     == IF deaths = Int2Num(0) THEN Add(kills, assists)
                   ELSE Div(Add(kills, assists), deaths)
    IN [champion |-> champ,
        games    |-> Len(own),
        winRate  |-> toFixed(Mul(Div(wins, games), Int2Num(100)), 1),
        kda      |-> toFixed(kda, 2),
        avgCs    |-> toFixed(Div(csPerMin, games), 2)]

\* updateChampionStats(matches) of the first script: one row per champion in
\* the order of Object.keys
updateChampionStats(matches) ==
    LET counted == SelectSeq(matches, LAMBDA m : championOf(m) # UNDEFINED)
        keys    == champKeys([k \in 1..Len(counted) |-> championOf(counted[k])])
    IN [r \in 1..Len(keys) |->
            champRow(keys[r], SelectSeq(counted, LAMBDA m : championOf(m) = keys[r]))]

\* the row of one champion in helpers.updateChampionStats
helperRow(champ, own) ==
    LET games   == Int2Num(Len(own))
        wins    == Int2Num(wonMatches(own))
        kills   == SumSeq(fieldValues(own, "kills"))
        deaths  == SumSeq(fieldValues(own, "deaths"))
        assists == SumSeq(fieldValues(own, "assists"))
    IN [champion |-> champ,
        games    |-> Len(own),
        winRate  |-> toFixed(Mul(Div(wins, games), Int2Num(100)), 1),
        kda      |-> toFixed(Div(Add(kills, assists), MathMax(deaths, Int2Num(1))), 2)]

\* entries.sort(([,a], [,b]) => b.games - a.games): stable, so equal games
\* keep the order of the entries
sortByGames(rows) ==
    LET before(i, j) == rows[i].games > rows[j].games \/ (rows[i].games = rows[j].games /\ i < j)
    IN [r \in 1..Len(rows) |->
            rows[CHOOSE i \in 1..Len(rows) :
                    Cardinality({j \in 1..Len(rows) : before(j, i)}) = r - 1]]

\* helpers.updateChampionStats(matches) of the second script, for a page that
\* has the table
helpersUpdateChampionStats(matches) ==
    LET keys == champKeys([k \in 1..Len(matches) |-> championNameOf(matches[k])])
    IN sortByGames([r \in 1..Len(keys) |->
            helperRow(keys[r], SelectSeq(matches, LAMBDA m : championNameOf(m) = keys[r]))])

-----------------------------------------------------------------------------
(* The analytics functions applied to match lists *)

MaxTail == 8

\* champion names in ascending order
ChampionNames ==
    <<"Aatrox", "Ahri", "Akali", "Amumu", "Annie", "Ashe", "Bard", "Brand", "Braum",
      "Caitlyn", "Darius", "Diana", "Draven", "Ekko", "Elise", "Ezreal", "Fiora", "Fizz",
      "Galio", "Garen", "Gnar", "Irelia", "Janna", "Jax", "Jinx", "Karma", "Leona",
      "Lux", "Nami", "Zed">>

\* games on or near the thresholds of the rules: KDA 1.5 / 4 / 0.25 / 12,
\* CS per minute 5 / 7 / 3 / 9
GameKinds ==
    { [win |-> FALSE, kills |-> 1, deaths |-> 2, assists |-> 2, cs |-> 5],
      [win |-> TRUE,  kills |-> 4, deaths |-> 1, assists |-> 0, cs |-> 7],
      [win |-> FALSE, kills |-> 0, deaths |-> 4, assists |-> 1, cs |-> 3],
      [win |-> TRUE,  kills |-> 9, deaths |-> 0, assists |-> 3, cs |-> 9] }

profileMatch(g, name) ==
    [champion_name |-> name, win |-> g.win, kills |-> g.kills, deaths |-> g.deaths,
     assists |-> g.assists, cs_per_minute |-> Int2Num(g.cs)]

\* a games of kind x on a pool of champions (cycled upwards or downwards in
\* name order), then b games of kind y, each on a champion not played before
matchListOf(x, a, y, b, pool, downwards) ==
    [i \in 1..(a + b) |->
        IF i <= a
        THEN profileMatch(x, ChampionNames[IF downwards THEN pool - ((i - 1) % pool)
                                           ELSE ((i - 1) % pool) + 1])
        ELSE profileMatch(y, ChampionNames[pool + (i - a)])]

MatchLists ==
    {matchListOf(x, a, y, b, pool, downwards) :
        x \in GameKinds, a \in {0, 2, 4, 7, 14, 20},
        y \in GameKinds, b \in {0, 1, 3, 6, MaxTail},
        pool \in {1, 14, 15, 16}, downwards \in BOOLEAN}

AnalyticsInit ==
    /\ server = "loop"
    /\ body = [valid |-> TRUE, dataSource |-> "all", useRiotApi |-> FALSE, region |-> "na"]
    /\ apiKey = FALSE
    /\ player = NewPlayer
    /\ pc = "analyse"
    /\ sourcesToTry = <<>>
    /\ pos = 1
    /\ failedSources = <<>>
    /\ successfulSource = NULL
    /\ scrapedData = NullData
    /\ invoked = <<>>
    /\ regionArgs = <<>>
    /\ endpoint = 0
    /\ retryCount = 0
    /\ httpCalls = 0
    /\ lastOutcome = NULL
    /\ lastError = NULL
    /\ delay = 0
    /\ matchCount = 0
    /\ saveStep = 0
    /\ response = NoResponse
    /\ sent = 0
    /\ errorLog = <<>>
    /\ retryAfterHeader = NoHeader
    /\ profileMatches \in MatchLists
    /\ insights = <<>>
    /\ tbody = <<>>
    /\ added = {}
    /\ savedAt = <<>>
    /\ calls = <<>>
    /\ returned = [op |-> NULL]
    /\ now = 1
    /\ localStorage = <<>>
    /\ indexedDB = [summoners |-> <<>>, settings |-> <<>>]
    /\ db = NULL
    /\ isIndexedDBSupported = FALSE
    /\ savers = <<>>
    /\ tables = [summoners |-> {}, ranked_stats |-> <<>>, insights |-> <<>>]
    /\ requests = <<>>

serverVars == <<server, body, apiKey, player, orchVars, invoked, regionArgs, adapterVars, saveStep,
                respVars, errorLog, sideVars>>

\* generateInsights(summoner, matches, ranked)
GenerateInsights ==
    /\ pc = "analyse"
    /\ insights' = generateInsights(profileMatches)
    /\ pc' = "render"
    /\ UNCHANGED <<serverVars, profileMatches, tbody>>

\* updateChampionStats(data.matches || []) of the first script
UpdateChampionStats ==
    /\ pc = "render"
    /\ tbody' = updateChampionStats(profileMatches)
    /\ pc' = "rendered"
    /\ UNCHANGED <<serverVars, profileMatches, insights>>

\* helpers.updateChampionStats(data.matches) of the second script
HelpersUpdateChampionStats ==
    /\ pc = "render"
    /\ tbody' = helpersUpdateChampionStats(profileMatches)
    /\ pc' = "rendered"
    /\ UNCHANGED <<serverVars, profileMatches, insights>>

AnalyticsNext ==
    \/ GenerateInsights
    \/ UpdateChampionStats
    \/ HelpersUpdateChampionStats

AnalyticsSpec == AnalyticsInit /\ [][AnalyticsNext]_vars

-----------------------------------------------------------------------------
(* generateInsights over non-empty match lists *)

\* generateInsights has returned for the match list
insightsGenerated == pc \in {"render", "rendered"}

\* the 20 most recent matches of the list
last20 ==
    SubSeq(profileMatches, 1, IF Len(profileMatches) < 20 THEN Len(profileMatches) ELSE 20)

last20WinRate == Div(Int2Num(Cardinality({k \in 1..Len(last20) : last20[k].win})),
                     Int2Num(Len(last20)))
last20KDA     == Div(SumSeq(kdaPerMatch(last20)), Int2Num(Len(last20)))
last20CS      == Div(SumSeq([k \in 1..Len(last20) |-> last20[k].cs_per_minute]),
                     Int2Num(Len(last20)))
last20Champions == {last20[k].champion_name : k \in 1..Len(last20)}

hasInsight(title) == \E k \in 1..Len(insights) : insights[k].title = title

\* C23: for a non-empty match list, each category is evaluated over the 20
\* most recent matches only and on its own: consistency iff winRate < 0.4,
\* win streak iff winRate > 0.7, KDA at 1.5 / 4.0, CS at 5 / 7, champion pool
\* iff fewer than 16 distinct champions; the low and the high insight of a
\* category are never both present, a value on a threshold yields neither.
C23_InsightRules ==
    (insightsGenerated /\ Len(profileMatches) > 0) =>
        /\ hasInsight("Focus on Consistency") <=> Less(last20WinRate, Rat(2, 5))
        /\ hasInsight("Great Win Streak!")    <=> Less(Rat(7, 10), last20WinRate)
        /\ hasInsight("Improve Your KDA")     <=> Less(last20KDA, Rat(3, 2))
        /\ hasInsight("Excellent KDA")        <=> Less(Int2Num(4), last20KDA)
        /\ hasInsight("Improve Your Farming") <=> Less(last20CS, Int2Num(5))
        /\ hasInsight("Excellent Farming")    <=> Less(Int2Num(7), last20CS)
        /\ hasInsight("Expand Your Champion Pool") <=> Cardinality(last20Champions) < 16
        /\ ~hasInsight("No Recent Match Data")
        /\ \A j, k \in 1..Len(insights) : insights[j].type = insights[k].type => j = k

\* more than 20 matches, 16 or more champions overall but 15 in the last 20,
\* KDA and CS of the last 20 exactly on the upper thresholds
C23_Witness ==
    /\ insightsGenerated
    /\ Len(profileMatches) > 20
    /\ Cardinality({profileMatches[k].champion_name : k \in 1..Len(profileMatches)}) >= 16
    /\ Cardinality(last20Champions) = 15
    /\ last20KDA = Int2Num(4)
    /\ last20CS = Int2Num(7)
    /\ hasInsight("Great Win Streak!")
    /\ hasInsight("Expand Your Champion Pool")
    /\ Len(insights) = 2

-----------------------------------------------------------------------------
(* Shape of the returned profile *)

\* the keys the score and insight computations read from a match record
CanonicalMatchKeys == {"champion_name", "kills", "deaths", "assists", "cs_per_minute"}

\* C24: whatever source succeeds, every match record of the returned profile
\* carries the champion and kills/deaths/assists/cs-per-minute under the one
\* set of keys that the score and insight computations read.
C24_CanonicalMatchKeys ==
    profileReturned =>
        \A k \in 1..Len(response.matches) :
            CanonicalMatchKeys \subseteq DOMAIN response.matches[k]

-----------------------------------------------------------------------------
(* Statistics of the returned profile *)

\* mean over the matches of (kills + assists) / max(deaths, 1)
meanKDA(ms) ==
    Div(SumSeq([k \in 1..Len(ms) |->
                  Div(Int2Num(ms[k].kills + ms[k].assists),
                      Int2Num(IF ms[k].deaths > 1 THEN ms[k].deaths ELSE 1))]),
        Int2Num(Len(ms)))

\* mean over the matches of the CS per minute
meanCS(ms) == Div(SumSeq([k \in 1..Len(ms) |-> Int2Num(ms[k].cspm)]), Int2Num(Len(ms)))

\* C25: for every source that yields a non-empty match list, statistics.avgKDA
\* is the mean over the matches of (kills + assists) / max(deaths, 1),
\* statistics.avgCS the mean of their CS per minute and statistics.winRate
\* the wins over the number of matches.
C25_StatisticsMeans ==
    (profileReturned /\ Len(response.matches) > 0) =>
        /\ response.statistics.avgKDA = meanKDA(player.matches)
        /\ response.statistics.avgCS = meanCS(player.matches)
        /\ response.statistics.winRate =
              Div(Int2Num(winCount(player.matches)), Int2Num(Len(player.matches)))

-----------------------------------------------------------------------------
(* The champion table *)

\* position of a champion name in ascending name order
nameRank(c) == CHOOSE i \in 1..Len(ChampionNames) : ChampionNames[i] = c

gamesOf(c) == SelectSeq(profileMatches, LAMBDA m : m.champion_name = c)

\* C26: the champion table has one row per champion name of the matches, with
\* games, win rate wins / games and KDA (kills + assists) / max(deaths, 1) of
\* the champion's matches; the rows are ordered by games descending, ties by
\* champion name ascending, whatever the order of the matches.
C26_ChampionTable ==
    pc = "rendered" =>
        /\ {tbody[r].champion : r \in 1..Len(tbody)} =
              {profileMatches[k].champion_name : k \in 1..Len(profileMatches)}
        /\ \A r \in 1..Len(tbody) :
              LET own == gamesOf(tbody[r].champion) IN
              /\ tbody[r].games = Len(own)
              /\ tbody[r].winRate =
                    toFixed(Mul(Div(Int2Num(winCount(own)), Int2Num(Len(own))), Int2Num(100)), 1)
              /\ tbody[r].kda =
                    toFixed(Div(Add(SumSeq(fieldValues(own, "kills")),
                                    SumSeq(fieldValues(own, "assists"))),
                                MathMax(SumSeq(fieldValues(own, "deaths")), Int2Num(1))), 2)
        /\ \A r \in 1..(Len(tbody) - 1) :
              \/ tbody[r].games > tbody[r + 1].games
              \/ /\ tbody[r].games = tbody[r + 1].games
                 /\ nameRank(tbody[r].champion) < nameRank(tbody[r + 1].champion)

-----------------------------------------------------------------------------
(* Region codes *)

\* regionMaps[source][region] || region
regionMaps(source, region) ==
    CASE source \in {RIOT_API, OPGG} /\ region = "na"   -> "na1"
      [] source \in {RIOT_API, OPGG} /\ region = "euw"  -> "euw1"
      [] source \in {RIOT_API, OPGG} /\ region = "eune" -> "eun1"
      [] source = RIOT_API /\ region = "oce"            -> "oc1"
      [] OTHER                                          -> region

\* C27: each adapter is invoked with the region code of its own region map:
\* the region passed to the Riot, OP.GG, Mobalytics and League of Graphs
\* adapter is the value of that source's map for the requested region, or the
\* region itself when the map has no entry for it.
C27_MappedRegion ==
    server = "loop" =>
        \A k \in 1..Len(invoked) :
            invoked[k] # DATA_DRAGON =>
                regionArgs[k] = regionMaps(invoked[k], body.region)

-----------------------------------------------------------------------------
(* A summoner the source does not know *)

\* error.message includes 'not found'
includesNotFound(message) ==
    message \in {"Summoner not found on Mobalytics", "Summoner not found on League of Graphs"}

\* C28: for each of the three scrapers, a 404 answer of the source makes the
\* scraper fail with an error whose message contains 'not found'; it never
\* returns a result.
C28_NotFoundMessage ==
    [][(pc = "http" /\ Last(invoked) \in Scrapers /\ lastOutcome' = "404") =>
          /\ includesNotFound(lastError')
          /\ failedSources' = Append(failedSources, Last(invoked))
          /\ scrapedData' = scrapedData]_vars

-----------------------------------------------------------------------------
(* Shape of the scraper results *)

\* a scraper has returned its result to the handler
scraperReturned == successfulSource \in Scrapers

\* C29: every scraper result with a non-empty ranked list has
\* statistics.totalGames, equal to ranked[0].wins + ranked[0].losses.
C29_TotalGames ==
    (scraperReturned /\ Len(scrapedData.ranked) > 0) =>
        /\ "totalGames" \in DOMAIN scrapedData.statistics
        /\ scrapedData.statistics.totalGames =
              scrapedData.ranked[1].wins + scrapedData.ranked[1].losses

RankedEntryKeys == {"queueType", "tier", "rank", "leaguePoints", "wins", "losses"}

\* C30: every ranked entry returned by one of the three scrapers has all of
\* the fields queueType, tier, rank, leaguePoints, wins and losses.
C30_RankedEntryKeys ==
    scraperReturned =>
        \A k \in 1..Len(scrapedData.ranked) :
            RankedEntryKeys \subseteq DOMAIN scrapedData.ranked[k]

-----------------------------------------------------------------------------
(* The two orchestrators on the same adapter outcomes *)

\* a request for all sources with the Riot API disabled has been answered
allScrapersAnswered ==
    /\ pc = "done"
    /\ body.valid
    /\ normalizedSource(body.dataSource) = "all"
    /\ ~body.useRiotApi

\* the adapters that threw, in call order
thrownSources ==
    IF successfulSource # NULL THEN SubSeq(attempted, 1, Len(attempted) - 1) ELSE attempted

\* the answer of the loop-based handler for these adapter outcomes
loopAnswer ==
    IF successfulSource # NULL
    THEN NormalizedResponse(scrapedData, successfulSource, thrownSources)
    ELSE IF lastOutcome = "ok" THEN DegradedProfile(thrownSources)
    ELSE TotalFailure(thrownSources)

\* C39: for preferredSource 'all' with the Riot API disabled, the nested
\* handler and the loop-based handler invoke the same adapters in the same
\* order and end in the same terminal state with the same dataSource and the
\* same failedSources, for every combination of adapter outcomes.
C39_Equivalent ==
    allScrapersAnswered =>
        /\ IsPrefix(attempted, priorityOrder)
        /\ (successfulSource = NULL => Last(invoked) = DATA_DRAGON)
        /\ failedSources = thrownSources
        /\ response = loopAnswer

-----------------------------------------------------------------------------
(* Concurrent requests to the loop-based server *)

Requests == {1, 2}

\* the variables of the single handler of Spec, which rest in ConcSpec
handlerVars == <<server, body, player, pageVars, pc, orchVars, invoked, regionArgs,
                 adapterVars, saveStep, respVars>>

\* req.body of the concurrent requests
ConcurrentBodies ==
    [valid : BOOLEAN, dataSource : {"all", "opgg"}, useRiotApi : BOOLEAN, region : {"na"}]

\* the local variables of the handler at the arrival of a request; settled
\* holds, per adapter call of the request, whether the call returned
newRequest(b, p) ==
    [body |-> b, player |-> p, pc |-> "start", sourcesToTry |-> <<>>, pos |-> 1,
     failedSources |-> <<>>, successfulSource |-> NULL, scrapedData |-> NullData,
     settled |-> <<>>, saveStep |-> 0, response |-> NoResponse]

\* a failedSources array at module level: every handler pushes to the same array
recordFailureShared(reqs, r, source) ==
    [q \in DOMAIN reqs |-> [reqs[q] EXCEPT !.failedSources = Append(@, source)]]

\* failedSources.push(source) on the array the handler created
recordFailure(reqs, r, source) ==
    [reqs EXCEPT ![r].failedSources = Append(@, source)]

\* validation and construction of sourcesToTry
ReqHandleRequest(r) ==
    LET q == requests[r] IN
    /\ q.pc = "start"
    /\ requests' =
         IF ~q.body.valid
         THEN [requests EXCEPT ![r].response = BadRequest, ![r].pc = "done"]
         ELSE LET list == buildSourcesToTry(q.body.dataSource, q.body.useRiotApi) IN
              [requests EXCEPT ![r].sourcesToTry = list,
                               ![r].pc = IF list = <<>> THEN "after" ELSE "loop"]
    /\ UNCHANGED <<handlerVars, browserVars, dbVars, apiKey, errorLog>>

\* the adapter call of one iteration: the handler is suspended in its await
ReqTrySource(r) ==
    LET q == requests[r] IN
    /\ q.pc = "loop"
    /\ q.pos <= Len(q.sourcesToTry)
    /\ requests' = [requests EXCEPT ![r].pc = "await"]
    /\ UNCHANGED <<handlerVars, browserVars, dbVars, apiKey, errorLog>>

\* the adapter call settles: success with break, or the catch block
ReqAdapterSettles(r) ==
    LET q      == requests[r]
        source == q.sourcesToTry[q.pos]
    IN
    /\ q.pc = "await"
    /\ \E ok \in BOOLEAN :
         \* fetchFromRiotApi throws when no key is configured
         /\ (source = RIOT_API /\ ~apiKey) => ~ok
         /\ IF ok
            THEN /\ requests' = [requests EXCEPT
                                   ![r].scrapedData = adapterResult(source, q.player),
                                   ![r].successfulSource = source,
                                   ![r].settled = Append(@, TRUE),
                                   ![r].pc = "after"]
                 /\ UNCHANGED errorLog
            ELSE /\ requests' = [recordFailure(requests, r, source) EXCEPT
                                   ![r].pos = @ + 1,
                                   ![r].settled = Append(@, FALSE),
                                   ![r].pc = IF q.pos + 1 > Len(q.sourcesToTry)
                                             THEN "after" ELSE "loop"]
                 /\ errorLog' = IF logsFailure(source)
                                THEN logError(errorLog, source, "SCRAPE_SUMMONER")
                                ELSE errorLog
    /\ UNCHANGED <<handlerVars, browserVars, dbVars, apiKey>>

\* after the loop: static fallback when nothing succeeded, else the persistence block
ReqAfter(r) ==
    LET q == requests[r] IN
    /\ q.pc = "after"
    /\ requests' =
         IF q.scrapedData = NullData \/ q.successfulSource = NULL
         THEN [requests EXCEPT ![r].pc = "static"]
         ELSE [requests EXCEPT ![r].pc = "persist", ![r].saveStep = 1]
    /\ UNCHANGED <<handlerVars, browserVars, dbVars, apiKey, errorLog>>

\* fetchFromDataDragon settles: degraded profile or 503
ReqStaticReturn(r) ==
    LET q == requests[r] IN
    /\ q.pc = "static"
    /\ \E ok \in BOOLEAN :
         /\ requests' = [requests EXCEPT
                           ![r].response = IF ok THEN DegradedProfile(q.failedSources)
                                                 ELSE TotalFailure(q.failedSources),
                           ![r].settled = Append(@, ok),
                           ![r].pc = "done"]
         /\ errorLog' = IF ok THEN errorLog
                        ELSE logError(errorLog, "ALL_SOURCES", "COMPLETE_FAILURE")
    /\ UNCHANGED <<handlerVars, browserVars, dbVars, apiKey>>

\* the three saves are awaited in turn, a rejection is caught; then res.json
ReqPersist(r) ==
    LET q == requests[r] IN
    /\ q.pc = "persist"
    /\ \E ok \in BOOLEAN :
         requests' =
           IF ok /\ q.saveStep < 3
           THEN [requests EXCEPT ![r].saveStep = @ + 1]
           ELSE [requests EXCEPT
                   ![r].response = NormalizedResponse(q.scrapedData, q.successfulSource,
                                                      q.failedSources),
                   ![r].pc = "done"]
    /\ UNCHANGED <<handlerVars, browserVars, dbVars, apiKey, errorLog>>

\* two requests arrive at the loop-based server
ConcInit ==
    /\ server = "loop"
    /\ body = [valid |-> TRUE, dataSource |-> "all", useRiotApi |-> FALSE, region |-> "na"]
    /\ apiKey \in BOOLEAN
    /\ player = NewPlayer
    /\ pc = "concurrent"
    /\ sourcesToTry = <<>>
    /\ pos = 1
    /\ failedSources = <<>>
    /\ successfulSource = NULL
    /\ scrapedData = NullData
    /\ invoked = <<>>
    /\ regionArgs = <<>>
    /\ endpoint = 0
    /\ retryCount = 0
    /\ httpCalls = 0
    /\ lastOutcome = NULL
    /\ lastError = NULL
    /\ delay = 0
    /\ matchCount = 0
    /\ saveStep = 0
    /\ response = NoResponse
    /\ sent = 0
    /\ errorLog = <<>>
    /\ retryAfterHeader = NoHeader
    /\ profileMatches = <<>>
    /\ insights = <<>>
    /\ tbody = <<>>
    /\ added = {}
    /\ savedAt = <<>>
    /\ calls = <<>>
    /\ returned = [op |-> NULL]
    /\ now = 1
    /\ localStorage = <<>>
    /\ indexedDB = [summoners |-> <<>>, settings |-> <<>>]
    /\ db = NULL
    /\ isIndexedDBSupported = FALSE
    /\ savers = <<>>
    /\ tables = [summoners |-> {}, ranked_stats |-> <<>>, insights |-> <<>>]
    /\ requests \in [Requests -> {newRequest(b, p) : b \in ConcurrentBodies, p \in MainPlayers}]

ConcNext ==
    \/ \E r \in Requests : ReqHandleRequest(r)
    \/ \E r \in Requests : ReqTrySource(r)
    \/ \E r \in Requests : ReqAdapterSettles(r)
    \/ \E r \in Requests : ReqAfter(r)
    \/ \E r \in Requests : ReqStaticReturn(r)
    \/ \E r \in Requests : ReqPersist(r)

ConcSpec == ConcInit /\ [][ConcNext]_vars

-----------------------------------------------------------------------------
(* Independence of concurrent requests *)

\* index of the first adapter call of the request that returned, 0 if none did
firstReturned(outs, n) ==
    IF \E k \in 1..n : k <= Len(outs) /\ outs[k]
    THEN CHOOSE k \in 1..n : /\ k <= Len(outs) /\ outs[k]
                             /\ \A j \in 1..(k - 1) : ~outs[j]
    ELSE 0

\* the response of the request when it is the only one the server processes,
\* from the outcomes of its own adapter calls
aloneResponse(b, p, outs) ==
    IF ~b.valid THEN BadRequest
    ELSE LET list == buildSourcesToTry(b.dataSource, b.useRiotApi)
             k    == firstReturned(outs, Len(list))
         IN IF k # 0
            THEN NormalizedResponse(adapterResult(list[k], p), list[k], SubSeq(list, 1, k - 1))
            ELSE IF outs[Len(list) + 1] THEN DegradedProfile(list) ELSE TotalFailure(list)

\* C31: whatever the interleaving of two requests, the response of each
\* (dataSource, failedSources, opScore, insights and the rest) is the one
\* the request gets from the outcomes of its own adapter calls when run alone
C31_Independent ==
    \A r \in Requests :
        requests[r].pc = "done" =>
            requests[r].response =
                aloneResponse(requests[r].body, requests[r].player, requests[r].settled)

\* both requests were answered after their adapter calls interleaved: the log
\* holds the failures of OP.GG of both before those of Mobalytics, and the
\* requests ended differently
C31_Witness ==
    /\ \A r \in Requests : requests[r].pc = "done"
    /\ Len(errorLog) >= 3
    /\ errorLog[1].source = OPGG
    /\ errorLog[2].source = OPGG
    /\ errorLog[3].source = MOBALYTICS
    /\ requests[1].response.status = 200
    /\ requests[1].response.dataSource = LEAGUE_OF_GRAPHS
    /\ requests[1].response.failedSources = <<OPGG, MOBALYTICS>>
    /\ requests[2].response.status = 503

-----------------------------------------------------------------------------
(* Identities: strings as sequences of characters *)

UpperCaseLetters == {"A", "B", "K", "R"}
LowerCaseLetters == {"a", "b", "k", "r"}
Digits           == {"1"}

\* String.prototype.toLowerCase, character by character
toLowerCaseChar(c) ==
    CASE c = "A" -> "a"
      [] c = "B" -> "b"
      [] c = "K" -> "k"
      [] c = "R" -> "r"
      [] OTHER   -> c

\* .replace(/[^a-zA-Z0-9_]/g, '_'), character by character
wordChar(c) ==
    IF c \in UpperCaseLetters \cup LowerCaseLetters \cup Digits \cup {"_"} THEN c ELSE "_"

\* `${successfulSource}_${summonerName}_${tagLine}_${region}`.replace(/[^a-zA-Z0-9_]/g, '_');
\* the names of the sources and regions hold no character the replace changes
puuidOf(source, summonerName, tagLine, region) ==
    <<source, "_">> \o [k \in 1..Len(summonerName) |-> wordChar(summonerName[k])]
                    \o <<"_">>
                    \o [k \in 1..Len(tagLine) |-> wordChar(tagLine[k])]
                    \o <<"_", region>>

-----------------------------------------------------------------------------
(* Persistence of the profiles: the save functions on the shared database *)

MaxSaves == 2

Savers == {1, 2}

\* the summoners whose profiles are saved, each as OP.GG answers for it
SavedSummoners ==
    {[summonerName |-> <<"A", "b">>, tagLine |-> <<"K", "R", "1">>, region |-> "na",
      player |-> GoldPlayer],
     [summonerName |-> <<"b", "a">>, tagLine |-> <<"K", "R", "1">>, region |-> "na",
      player |-> NewPlayer]}

\* pseudoAccountData.puuid, normalizedResponse.ranked and scrapedInsights of the
\* request for summoner x that OP.GG answered
profileOf(x) ==
    LET data == adapterResult(OPGG, x.player) IN
    [puuid    |-> puuidOf(OPGG, x.summonerName, x.tagLine, x.region),
     gameName |-> x.summonerName,
     tagLine  |-> x.tagLine,
     region   |-> x.region,
     ranked   |-> data.ranked,
     insights |-> scrapedInsights(data, OPGG)]

\* the persistence block before its first statement
newSaver(x) == [profile |-> profileOf(x), pc |-> "idle", k |-> 1, saves |-> 0]

\* the columns bound by saveSummonerData (the row id and last_updated are
\* left to the database)
summonerRow(profile) ==
    [puuid |-> profile.puuid, summoner_name |-> profile.gameName,
     tag_line |-> profile.tagLine, region |-> profile.region]

\* the columns bound by stmt.run of saveRankedStats
rankedRow(puuid, queue) ==
    [summoner_puuid |-> puuid,
     queue_type     |-> IF "queueType" \in DOMAIN queue THEN queue.queueType ELSE queue.queue,
     tier           |-> queue.tier,
     rank_division  |-> queue.rank,
     league_points  |-> queue.leaguePoints,
     wins           |-> queue.wins,
     losses         |-> queue.losses]

\* the columns bound by stmt.run of saveInsights
insightRow(puuid, insight) ==
    [summoner_puuid |-> puuid, insight_type |-> insight.type, title |-> insight.title,
     priority |-> insight.priority]

\* DELETE FROM <table> WHERE summoner_puuid = ?
deleteRows(rows, puuid) == SelectSeq(rows, LAMBDA row : row.summoner_puuid # puuid)

\* the handler reaches its persistence block and calls saveSummonerData
StartSave(s) ==
    /\ savers[s].pc = "idle"
    /\ savers[s].saves < MaxSaves
    /\ savers' = [savers EXCEPT ![s].pc = "summoner"]
    /\ UNCHANGED <<handlerVars, browserVars, concVars, apiKey, errorLog, tables>>

\* INSERT OR REPLACE INTO summoners runs (puuid is UNIQUE); the promise
\* resolves and saveRankedStats issues its DELETE
SaveSummonerData(s) ==
    LET profile == savers[s].profile IN
    /\ savers[s].pc = "summoner"
    /\ tables' = [tables EXCEPT !.summoners =
                    {row \in @ : row.puuid # profile.puuid} \cup {summonerRow(profile)}]
    /\ savers' = [savers EXCEPT ![s].pc = "rankedDelete"]
    /\ UNCHANGED <<handlerVars, browserVars, concVars, apiKey, errorLog>>

\* the DELETE of saveRankedStats runs and its callback issues the INSERTs
RankedDelete(s) ==
    LET profile == savers[s].profile IN
    /\ savers[s].pc = "rankedDelete"
    /\ tables' = [tables EXCEPT !.ranked_stats = deleteRows(@, profile.puuid)]
    /\ savers' = [savers EXCEPT ![s].pc = IF profile.ranked = <<>> THEN "insightsDelete"
                                          ELSE "rankedInsert",
                                ![s].k = 1]
    /\ UNCHANGED <<handlerVars, browserVars, concVars, apiKey, errorLog>>

\* one INSERT INTO ranked_stats runs; after the last the promise resolves and
\* saveInsights issues its DELETE
RankedInsert(s) ==
    LET profile == savers[s].profile
        k       == savers[s].k
    IN
    /\ savers[s].pc = "rankedInsert"
    /\ tables' = [tables EXCEPT !.ranked_stats =
                    Append(@, rankedRow(profile.puuid, profile.ranked[k]))]
    /\ savers' = IF k < Len(profile.ranked)
                 THEN [savers EXCEPT ![s].k = k + 1]
                 ELSE [savers EXCEPT ![s].pc = "insightsDelete", ![s].k = 1]
    /\ UNCHANGED <<handlerVars, browserVars, concVars, apiKey, errorLog>>

\* the DELETE of saveInsights runs and its callback issues the INSERTs
InsightsDelete(s) ==
    LET profile == savers[s].profile IN
    /\ savers[s].pc = "insightsDelete"
    /\ tables' = [tables EXCEPT !.insights = deleteRows(@, profile.puuid)]
    /\ savers' = IF profile.insights = <<>>
                 THEN [savers EXCEPT ![s].pc = "idle", ![s].saves = @ + 1]
                 ELSE [savers EXCEPT ![s].pc = "insightsInsert", ![s].k = 1]
    /\ UNCHANGED <<handlerVars, browserVars, concVars, apiKey, errorLog>>

\* one INSERT INTO insights runs; after the last the promise resolves and the
\* persistence block is left
InsightsInsert(s) ==
    LET profile == savers[s].profile
        k       == savers[s].k
    IN
    /\ savers[s].pc = "insightsInsert"
    /\ tables' = [tables EXCEPT !.insights =
                    Append(@, insightRow(profile.puuid, profile.insights[k]))]
    /\ savers' = IF k < Len(profile.insights)
                 THEN [savers EXCEPT ![s].k = k + 1]
                 ELSE [savers EXCEPT ![s].pc = "idle", ![s].k = 1, ![s].saves = @ + 1]
    /\ UNCHANGED <<handlerVars, browserVars, concVars, apiKey, errorLog>>

\* an empty database and two handlers about to persist a profile each
PersistInit ==
    /\ server = "loop"
    /\ body = [valid |-> TRUE, dataSource |-> "all", useRiotApi |-> FALSE, region |-> "na"]
    /\ apiKey = FALSE
    /\ player = NewPlayer
    /\ pc = "persistence"
    /\ sourcesToTry = <<>>
    /\ pos = 1
    /\ failedSources = <<>>
    /\ successfulSource = NULL
    /\ scrapedData = NullData
    /\ invoked = <<>>
    /\ regionArgs = <<>>
    /\ endpoint = 0
    /\ retryCount = 0
    /\ httpCalls = 0
    /\ lastOutcome = NULL
    /\ lastError = NULL
    /\ delay = 0
    /\ matchCount = 0
    /\ saveStep = 0
    /\ response = NoResponse
    /\ sent = 0
    /\ errorLog = <<>>
    /\ retryAfterHeader = NoHeader
    /\ profileMatches = <<>>
    /\ insights = <<>>
    /\ tbody = <<>>
    /\ added = {}
    /\ savedAt = <<>>
    /\ calls = <<>>
    /\ returned = [op |-> NULL]
    /\ now = 1
    /\ localStorage = <<>>
    /\ indexedDB = [summoners |-> <<>>, settings |-> <<>>]
    /\ db = NULL
    /\ isIndexedDBSupported = FALSE
    /\ requests = <<>>
    /\ tables = [summoners |-> {}, ranked_stats |-> <<>>, insights |-> <<>>]
    /\ savers \in [Savers -> {newSaver(x) : x \in SavedSummoners}]

PersistNext ==
    \/ \E s \in Savers : StartSave(s)
    \/ \E s \in Savers : SaveSummonerData(s)
    \/ \E s \in Savers : RankedDelete(s)
    \/ \E s \in Savers : RankedInsert(s)
    \/ \E s \in Savers : InsightsDelete(s)
    \/ \E s \in Savers : InsightsInsert(s)

PersistSpec == PersistInit /\ [][PersistNext]_vars

-----------------------------------------------------------------------------
(* Idempotence of the saves *)

\* the rows the tables hold for the profile id
storedFor(puuid) ==
    [summoners    |-> {row \in tables.summoners : row.puuid = puuid},
     ranked_stats |-> SelectSeq(tables.ranked_stats, LAMBDA row : row.summoner_puuid = puuid),
     insights     |-> SelectSeq(tables.insights, LAMBDA row : row.summoner_puuid = puuid)]

\* the rows a single save of the profile leaves for its id
singleSave(profile) ==
    [summoners    |-> {summonerRow(profile)},
     ranked_stats |-> [k \in 1..Len(profile.ranked) |->
                         rankedRow(profile.puuid, profile.ranked[k])],
     insights     |-> [k \in 1..Len(profile.insights) |->
                         insightRow(profile.puuid, profile.insights[k])]]

\* C32: once every save in flight has completed, the rows stored for a
\* profile id that was saved (once or several times, by one handler or by
\* concurrent ones) are those of a single save: one summoner row, and no
\* duplicated ranked or insight rows
C32_IdempotentUpsert ==
    (\A s \in Savers : savers[s].pc = "idle") =>
        \A s \in Savers :
            savers[s].saves > 0 =>
                storedFor(savers[s].profile.puuid) = singleSave(savers[s].profile)

-----------------------------------------------------------------------------
(* The storage object of the page: LoLCoachStorage *)

MaxClock == 27

EXPIRATION_HOURS == 12

\* the server process, which rests while the page works on its storage
backendVars == <<handlerVars, apiKey, errorLog, concVars, dbVars>>

\* null, and the undefined of a store that holds nothing under the key
NoEntry == [key |-> NULL]

\* identities the page caches: the names differ in one character that is
\* neither a letter nor a digit
SpacedName ==
    [summonerName |-> <<"a", " ", "b">>, tagLine |-> <<"k", "r", "1">>, region |-> "na"]
DashedName ==
    [summonerName |-> <<"a", "-", "b">>, tagLine |-> <<"k", "r", "1">>, region |-> "na"]
CachedSummoners == {SpacedName, DashedName}

\* .toLowerCase().replace(/[^a-z0-9_]/g, '_'), character by character
keyChar(c) ==
    LET lower == toLowerCaseChar(c) IN
    IF lower \in LowerCaseLetters \cup Digits \cup {"_"} THEN lower ELSE "_"

\* `summoner_${summonerName}_${tagLine}_${region}`.toLowerCase().replace(...);
\* the names of the regions are lower-case words
generateSummonerKey(summonerName, tagLine, region) ==
    <<"summoner", "_">> \o [k \in 1..Len(summonerName) |-> keyChar(summonerName[k])]
                        \o <<"_">>
                        \o [k \in 1..Len(tagLine) |-> keyChar(tagLine[k])]
                        \o <<"_", region>>

\* an expiration check against a 24-hour policy
isExpiredDaily(timestamp) == now - timestamp > 24

\* isExpired(timestamp): Date.now() - timestamp > expirationTime
isExpired(timestamp) == now - timestamp > EXPIRATION_HOURS

\* the profile the page caches for an identity (the response of the server to
\* the request for it, which is JSON)
profileData(id) == [summoner |-> id, dataSource |-> OPGG]

\* cacheEntry of saveSummonerData
cacheEntry(id, data, timestamp) ==
    [key       |-> generateSummonerKey(id.summonerName, id.tagLine, id.region),
     data      |-> data,
     timestamp |-> timestamp,
     expires   |-> timestamp + EXPIRATION_HOURS]

\* setting of saveAppSetting
appSetting(name, value, timestamp) == [key |-> name, value |-> value, timestamp |-> timestamp]

\* JSON.stringify and JSON.parse on the values the page stores (plain JSON
\* data): the item is a string, the parse gives the value back
JSONstringify(value) == [json |-> value]
JSONparse(item) == item.json

\* `lol_coach_${key}` and `lol_coach_setting_${key}`
summonerItem(key) == <<"lol_coach_">> \o key
settingItem(name) == <<"lol_coach_", "setting_", name>>

\* put, delete and get of an object store, setItem, removeItem and getItem
put(store, k, v) == [x \in DOMAIN store \cup {k} |-> IF x = k THEN v ELSE store[x]]
remove(store, k) == [x \in DOMAIN store \ {k} |-> store[x]]
lookup(store, k) == IF k \in DOMAIN store THEN store[k] ELSE NoEntry

\* this.isIndexedDBSupported && this.db
useIndexedDB == isIndexedDBSupported /\ db # NULL

\* the two stores, as the functions below transform them
stores == [idb |-> indexedDB, ls |-> localStorage]

\* saveToIndexedDB('summoners', cacheEntry) or saveToLocalStorage(key, cacheEntry)
saveCacheEntry(st, idb, entry) ==
    IF idb
    THEN [st EXCEPT !.idb.summoners = put(@, entry.key, entry)]
    ELSE [st EXCEPT !.ls = put(@, summonerItem(entry.key), JSONstringify(entry))]

\* getFromIndexedDB('summoners', key) or getFromLocalStorage(key)
getCacheEntry(st, idb, key) ==
    IF idb
    THEN lookup(st.idb.summoners, key)
    ELSE IF summonerItem(key) \in DOMAIN st.ls
         THEN JSONparse(st.ls[summonerItem(key)])
         ELSE NoEntry

\* removeSummonerData
removeSummonerData(st, idb, key) ==
    IF idb
    THEN [st EXCEPT !.idb.summoners = remove(@, key)]
    ELSE [st EXCEPT !.ls = remove(@, summonerItem(key))]

\* saveAppSetting(key, value)
saveAppSetting(st, idb, name, value) ==
    IF idb
    THEN [st EXCEPT !.idb.settings = put(@, name, appSetting(name, value, now))]
    ELSE [st EXCEPT !.ls = put(@, settingItem(name),
                               JSONstringify(appSetting(name, value, now)))]

\* getAppSetting(key, defaultValue)
getAppSetting(st, idb, name, defaultValue) ==
    IF idb
    THEN IF name \in DOMAIN st.idb.settings THEN st.idb.settings[name].value
         ELSE defaultValue
    ELSE IF settingItem(name) \in DOMAIN st.ls
         THEN JSONparse(st.ls[settingItem(name)]).value
         ELSE defaultValue

\* the keys cleanupExpiredData removes: the expired entries of the summoners
\* store, or the items named lol_coach_* whose timestamp is set and expired
cleanedKeys(st, idb) ==
    IF idb
    THEN {k \in DOMAIN st.idb.summoners : isExpired(st.idb.summoners[k].timestamp)}
    ELSE {k \in DOMAIN st.ls :
            /\ k[1] = "lol_coach_"
            /\ JSONparse(st.ls[k]).timestamp # 0
            /\ isExpired(JSONparse(st.ls[k]).timestamp)}

\* the stores after cleanupExpiredData
cleanupExpiredData(st, idb) ==
    IF idb
    THEN [st EXCEPT !.idb.summoners = [k \in DOMAIN @ \ cleanedKeys(st, idb) |-> @[k]]]
    ELSE [st EXCEPT !.ls = [k \in DOMAIN @ \ cleanedKeys(st, idb) |-> @[k]]]

\* lastAccessedSummoner of saveSummonerData and getSummonerData
lastAccessed(id) ==
    [summonerName |-> id.summonerName, tagLine |-> id.tagLine, region |-> id.region,
     timestamp |-> now]

\* the stores are assigned
Store(st) ==
    /\ indexedDB' = st.idb
    /\ localStorage' = st.ls

\* indexedDB.open settles: onsuccess sets this.db, a rejection clears
\* isIndexedDBSupported; no call is suspended meanwhile
InitSettles ==
    /\ isIndexedDBSupported
    /\ db = NULL
    /\ \A c \in DOMAIN calls : calls[c].pc = "idle"
    /\ \E ok \in BOOLEAN :
         IF ok THEN /\ db' = "LoLCoachDB"
                    /\ UNCHANGED isIndexedDBSupported
               ELSE /\ isIndexedDBSupported' = FALSE
                    /\ UNCHANGED db
    /\ UNCHANGED <<backendVars, pageVars, indexedDB, localStorage, now, returned, calls,
                   savedAt, added>>

\* the page is left alone for the expiration time or an hour more
TickHours == {EXPIRATION_HOURS, EXPIRATION_HOURS + 1}

\* time passes between two calls
Tick ==
    /\ \A c \in DOMAIN calls : calls[c].pc = "idle"
    /\ \E d \in TickHours :
         /\ now + d <= MaxClock
         /\ now' = now + d
    /\ UNCHANGED <<backendVars, pageVars, storeVars, returned, calls, savedAt, added>>

\* await saveSummonerData(summonerName, tagLine, region, data): the write is
\* accepted, or rejected; setItem of localStorage that fails is repeated after
\* cleanupExpiredData
StorageSaveSummonerData(id) ==
    LET idb     == useIndexedDB
        entry   == cacheEntry(id, profileData(id), now)
        cleaned == cleanupExpiredData(stores, idb)
    IN
    /\ \E outcome \in {"stored", "retried", "rejected"} :
         /\ idb => outcome # "retried"
         /\ Store(CASE outcome = "stored" ->
                         saveAppSetting(saveCacheEntry(stores, idb, entry), idb,
                                        "lastAccessedSummoner", lastAccessed(id))
                    [] outcome = "retried" ->
                         saveAppSetting(saveCacheEntry(cleaned, idb, entry), idb,
                                        "lastAccessedSummoner", lastAccessed(id))
                    [] outcome = "rejected" ->
                         IF idb THEN stores ELSE cleaned)
         /\ returned' = [op |-> "saveSummonerData", id |-> id,
                         ok |-> outcome # "rejected"]
         /\ savedAt' = IF outcome # "rejected" THEN [savedAt EXCEPT ![id] = now]
                       ELSE savedAt
    /\ UNCHANGED <<backendVars, pageVars, isIndexedDBSupported, db, now, calls, added>>

\* await getSummonerData(summonerName, tagLine, region)
StorageGetSummonerData(id) ==
    LET idb    == useIndexedDB
        key    == generateSummonerKey(id.summonerName, id.tagLine, id.region)
        stored == getCacheEntry(stores, idb, key)
    IN
    /\ IF stored = NoEntry
       THEN /\ returned' = [op |-> "getSummonerData", id |-> id, entry |-> NoEntry]
            /\ UNCHANGED <<indexedDB, localStorage>>
       ELSE IF isExpired(stored.timestamp)
       THEN /\ Store(removeSummonerData(stores, idb, key))
            /\ returned' = [op |-> "getSummonerData", id |-> id, entry |-> NoEntry]
       ELSE /\ Store(saveAppSetting(stores, idb, "lastAccessedSummoner", lastAccessed(id)))
            /\ returned' = [op |-> "getSummonerData", id |-> id, entry |-> stored]
    /\ UNCHANGED <<backendVars, pageVars, isIndexedDBSupported, db, now, calls, savedAt,
                   added>>

\* await cleanupExpiredData()
StorageCleanupExpiredData ==
    /\ Store(cleanupExpiredData(stores, useIndexedDB))
    /\ returned' = [op |-> "cleanupExpiredData",
                    count |-> Cardinality(cleanedKeys(stores, useIndexedDB))]
    /\ UNCHANGED <<backendVars, pageVars, isIndexedDBSupported, db, now, calls, savedAt,
                   added>>

\* the page is loaded: the constructor has run, indexedDB.open is pending when
\* the browser has IndexedDB; the stores are empty
CacheInit ==
    /\ server = "loop"
    /\ body = [valid |-> TRUE, dataSource |-> "all", useRiotApi |-> FALSE, region |-> "na"]
    /\ apiKey = FALSE
    /\ player = NewPlayer
    /\ pc = "page"
    /\ sourcesToTry = <<>>
    /\ pos = 1
    /\ failedSources = <<>>
    /\ successfulSource = NULL
    /\ scrapedData = NullData
    /\ invoked = <<>>
    /\ regionArgs = <<>>
    /\ endpoint = 0
    /\ retryCount = 0
    /\ httpCalls = 0
    /\ lastOutcome = NULL
    /\ lastError = NULL
    /\ delay = 0
    /\ matchCount = 0
    /\ saveStep = 0
    /\ response = NoResponse
    /\ sent = 0
    /\ errorLog = <<>>
    /\ retryAfterHeader = NoHeader
    /\ profileMatches = <<>>
    /\ insights = <<>>
    /\ tbody = <<>>
    /\ requests = <<>>
    /\ tables = [summoners |-> {}, ranked_stats |-> <<>>, insights |-> <<>>]
    /\ savers = <<>>
    /\ isIndexedDBSupported \in BOOLEAN
    /\ db = NULL
    /\ indexedDB = [summoners |-> <<>>, settings |-> <<>>]
    /\ localStorage = <<>>
    /\ now = 1
    /\ returned = [op |-> NULL]
    /\ calls = <<>>
    /\ savedAt = [id \in CachedSummoners |-> 0]
    /\ added = {}

CacheNext ==
    \/ InitSettles
    \/ Tick
    \/ \E id \in CachedSummoners : StorageSaveSummonerData(id)
    \/ \E id \in CachedSummoners : StorageGetSummonerData(id)
    \/ StorageCleanupExpiredData

CacheSpec == CacheInit /\ [][CacheNext]_vars

-----------------------------------------------------------------------------
(* The summoner cache of the page *)

cacheKey(id) == generateSummonerKey(id.summonerName, id.tagLine, id.region)

olderThan12Hours(timestamp) == now - timestamp > 12

\* the step is a call of getSummonerData for the identity
getSummonerDataOf(id) ==
    /\ returned'.op = "getSummonerData"
    /\ StorageGetSummonerData(id)

\* the entry the store in use holds for the identity
activeEntry(id) == getCacheEntry(stores, useIndexedDB, cacheKey(id))

C34_SameIdentity ==
    (returned.op = "getSummonerData" /\ returned.entry # NoEntry) =>
        returned.entry.data.summoner = returned.id

\* C35: a getSummonerData for an identity whose last successful
\* saveSummonerData is at most 12 hours old returns the entry of the identity's
\* key, whenever indexedDB.open settled
C35_SaveVisible ==
    [][\A id \in CachedSummoners :
         (/\ getSummonerDataOf(id)
          /\ savedAt[id] # 0
          /\ ~olderThan12Hours(savedAt[id])) =>
             /\ returned'.entry # NoEntry
             /\ returned'.entry.key = cacheKey(id)]_vars

-----------------------------------------------------------------------------
(* The saved accounts of the page *)

Callers == {1, 2}

AccountOps == {"addSavedAccount", "removeSavedAccount", "setDefaultAccount"}

\* no call of the caller is in flight
IdleCall == [pc |-> "idle", op |-> NULL]

\* acc.summonerName === summonerName && acc.tagLine === tagLine && acc.region === region
sameAccount(acc, id) ==
    /\ acc.summonerName = id.summonerName
    /\ acc.tagLine = id.tagLine
    /\ acc.region = id.region

\* newAccount of addSavedAccount
newAccount(accounts, id) ==
    [summonerName |-> id.summonerName, tagLine |-> id.tagLine, region |-> id.region,
     default |-> Len(accounts) = 0, dateAdded |-> now]

\* accounts.find(...) of addSavedAccount
accountExists(accounts, id) == \E k \in 1..Len(accounts) : sameAccount(accounts[k], id)

\* accounts.filter(...) of removeSavedAccount
withoutAccount(accounts, id) == SelectSeq(accounts, LAMBDA acc : ~sameAccount(acc, id))

\* a forEach that marks the account and leaves the marks of the others
withDefaultKeepingOthers(accounts, id) ==
    [k \in 1..Len(accounts) |->
        [accounts[k] EXCEPT !.default = @ \/ sameAccount(accounts[k], id)]]

\* accounts.forEach(acc => { acc.default = ... }) of setDefaultAccount
withDefault(accounts, id) ==
    [k \in 1..Len(accounts) |->
        [accounts[k] EXCEPT !.default = sameAccount(accounts[k], id)]]

\* getSavedAccounts() on the store in use
savedAccounts == getAppSetting(stores, useIndexedDB, "savedAccounts", <<>>)

\* a caller calls addSavedAccount, removeSavedAccount or setDefaultAccount: the
\* call reads the list and is suspended in `await this.getSavedAccounts()`
AccountCall(c, op, id) ==
    /\ calls[c].pc = "idle"
    /\ calls' = [calls EXCEPT ![c] = [pc |-> "reading", op |-> op, id |-> id,
                                      accounts |-> savedAccounts]]
    /\ added' = IF op = "removeSavedAccount" THEN added \ {id} ELSE added
    /\ UNCHANGED <<backendVars, pageVars, storeVars, now, returned, savedAt>>

\* the call resumes with the list it read, saves the changed list to the store
\* in use and returns
AccountResume ==
    /\ \E c \in DOMAIN calls :
         LET id       == calls[c].id
             accounts == calls[c].accounts
             op       == calls[c].op
             changed  == CASE op = "addSavedAccount" ->
                                Append(accounts, newAccount(accounts, id))
                           [] op = "removeSavedAccount" -> withoutAccount(accounts, id)
                           [] op = "setDefaultAccount" -> withDefault(accounts, id)
             result   == CASE op = "addSavedAccount" -> ~accountExists(accounts, id)
                           [] op = "removeSavedAccount" -> Len(changed) < Len(accounts)
                           [] op = "setDefaultAccount" -> TRUE
         IN
         /\ calls[c].pc = "reading"
         /\ IF result
            THEN Store(saveAppSetting(stores, useIndexedDB, "savedAccounts", changed))
            ELSE UNCHANGED <<indexedDB, localStorage>>
         /\ calls' = [calls EXCEPT ![c] = [pc |-> "idle", op |-> op, id |-> id,
                                           result |-> result]]
         /\ added' = CASE op = "addSavedAccount" /\ result -> added \cup {id}
                       [] op = "removeSavedAccount" -> added \ {id}
                       [] OTHER -> added
    /\ UNCHANGED <<backendVars, pageVars, isIndexedDBSupported, db, now, returned, savedAt>>

\* the page is loaded and its calls are awaited one after the other
AccountsInit ==
    /\ server = "loop"
    /\ body = [valid |-> TRUE, dataSource |-> "all", useRiotApi |-> FALSE, region |-> "na"]
    /\ apiKey = FALSE
    /\ player = NewPlayer
    /\ pc = "page"
    /\ sourcesToTry = <<>>
    /\ pos = 1
    /\ failedSources = <<>>
    /\ successfulSource = NULL
    /\ scrapedData = NullData
    /\ invoked = <<>>
    /\ regionArgs = <<>>
    /\ endpoint = 0
    /\ retryCount = 0
    /\ httpCalls = 0
    /\ lastOutcome = NULL
    /\ lastError = NULL
    /\ delay = 0
    /\ matchCount = 0
    /\ saveStep = 0
    /\ response = NoResponse
    /\ sent = 0
    /\ errorLog = <<>>
    /\ retryAfterHeader = NoHeader
    /\ profileMatches = <<>>
    /\ insights = <<>>
    /\ tbody = <<>>
    /\ requests = <<>>
    /\ tables = [summoners |-> {}, ranked_stats |-> <<>>, insights |-> <<>>]
    /\ savers = <<>>
    /\ isIndexedDBSupported \in BOOLEAN
    /\ db = NULL
    /\ indexedDB = [summoners |-> <<>>, settings |-> <<>>]
    /\ localStorage = <<>>
    /\ now = 1
    /\ returned = [op |-> NULL]
    /\ calls = [c \in {1} |-> IdleCall]
    /\ savedAt = [id \in CachedSummoners |-> 0]
    /\ added = {}

AccountsNext ==
    \/ InitSettles
    \/ \E c \in DOMAIN calls, op \in AccountOps, id \in CachedSummoners :
         AccountCall(c, op, id)
    \/ AccountResume

AccountsSpec == AccountsInit /\ [][AccountsNext]_vars

\* the initialisation has settled and two callers call without awaiting each other
ConcurrentAccountsInit ==
    /\ server = "loop"
    /\ body = [valid |-> TRUE, dataSource |-> "all", useRiotApi |-> FALSE, region |-> "na"]
    /\ apiKey = FALSE
    /\ player = NewPlayer
    /\ pc = "page"
    /\ sourcesToTry = <<>>
    /\ pos = 1
    /\ failedSources = <<>>
    /\ successfulSource = NULL
    /\ scrapedData = NullData
    /\ invoked = <<>>
    /\ regionArgs = <<>>
    /\ endpoint = 0
    /\ retryCount = 0
    /\ httpCalls = 0
    /\ lastOutcome = NULL
    /\ lastError = NULL
    /\ delay = 0
    /\ matchCount = 0
    /\ saveStep = 0
    /\ response = NoResponse
    /\ sent = 0
    /\ errorLog = <<>>
    /\ retryAfterHeader = NoHeader
    /\ profileMatches = <<>>
    /\ insights = <<>>
    /\ tbody = <<>>
    /\ requests = <<>>
    /\ tables = [summoners |-> {}, ranked_stats |-> <<>>, insights |-> <<>>]
    /\ savers = <<>>
    /\ isIndexedDBSupported \in BOOLEAN
    /\ db = IF isIndexedDBSupported THEN "LoLCoachDB" ELSE NULL
    /\ indexedDB = [summoners |-> <<>>, settings |-> <<>>]
    /\ localStorage = <<>>
    /\ now = 1
    /\ returned = [op |-> NULL]
    /\ calls = [c \in Callers |-> IdleCall]
    /\ savedAt = [id \in CachedSummoners |-> 0]
    /\ added = {}

ConcurrentAccountsNext ==
    \/ \E c \in DOMAIN calls, op \in AccountOps, id \in CachedSummoners :
         AccountCall(c, op, id)
    \/ AccountResume

ConcurrentAccountsSpec == ConcurrentAccountsInit /\ [][ConcurrentAccountsNext]_vars

-----------------------------------------------------------------------------
(* Properties of the saved accounts *)

\* C36: once all concurrent calls have completed, every account whose
\* addSavedAccount returned true and for which no removeSavedAccount was
\* called since is in the saved-accounts list
C36_NoLostUpdate ==
    (\A c \in DOMAIN calls : calls[c].pc = "idle") =>
        \A id \in added : accountExists(savedAccounts, id)

\* no two entries of the list are the same account
noDuplicateAccount(accounts) ==
    \A j, k \in 1..Len(accounts) : sameAccount(accounts[j], accounts[k]) => j = k

\* at most one entry of the list is the default
atMostOneDefault(accounts) ==
    \A j, k \in 1..Len(accounts) : (accounts[j].default /\ accounts[k].default) => j = k

\* C37: calls of addSavedAccount, removeSavedAccount and setDefaultAccount
\* awaited one after the other leave a list without two entries for the same
\* (summonerName, tagLine, region) and with at most one default entry; an
\* addSavedAccount that read an empty list leaves its account as the default
C37_AccountList ==
    [][/\ noDuplicateAccount(savedAccounts')
       /\ atMostOneDefault(savedAccounts')
       /\ \A c \in DOMAIN calls :
            (/\ calls[c].pc = "reading"
             /\ calls'[c].pc = "idle"
             /\ calls[c].op = "addSavedAccount"
             /\ calls[c].accounts = <<>>) =>
                /\ Len(savedAccounts') = 1
                /\ sameAccount(savedAccounts'[1], calls[c].id)
                /\ savedAccounts'[1].default]_vars

\* two accounts were added and the second was made the default
C37_Witness ==
    /\ Len(savedAccounts) = 2
    /\ sameAccount(savedAccounts[1], SpacedName)
    /\ sameAccount(savedAccounts[2], DashedName)
    /\ ~savedAccounts[1].default
    /\ savedAccounts[2].default
    /\ calls[1] = [pc |-> "idle", op |-> "setDefaultAccount", id |-> DashedName,
                   result |-> TRUE]

-----------------------------------------------------------------------------
(* Cleanup of the cache of a page that holds a profile and saved accounts *)

\* the page is loaded; its calls are awaited one after the other
CleanupInit ==
    /\ server = "loop"
    /\ body = [valid |-> TRUE, dataSource |-> "all", useRiotApi |-> FALSE, region |-> "na"]
    /\ apiKey = FALSE
    /\ player = NewPlayer
    /\ pc = "page"
    /\ sourcesToTry = <<>>
    /\ pos = 1
    /\ failedSources = <<>>
    /\ successfulSource = NULL
    /\ scrapedData = NullData
    /\ invoked = <<>>
    /\ regionArgs = <<>>
    /\ endpoint = 0
    /\ retryCount = 0
    /\ httpCalls = 0
    /\ lastOutcome = NULL
    /\ lastError = NULL
    /\ delay = 0
    /\ matchCount = 0
    /\ saveStep = 0
    /\ response = NoResponse
    /\ sent = 0
    /\ errorLog = <<>>
    /\ retryAfterHeader = NoHeader
    /\ profileMatches = <<>>
    /\ insights = <<>>
    /\ tbody = <<>>
    /\ requests = <<>>
    /\ tables = [summoners |-> {}, ranked_stats |-> <<>>, insights |-> <<>>]
    /\ savers = <<>>
    /\ isIndexedDBSupported \in BOOLEAN
    /\ db = NULL
    /\ indexedDB = [summoners |-> <<>>, settings |-> <<>>]
    /\ localStorage = <<>>
    /\ now = 1
    /\ returned = [op |-> NULL]
    /\ calls = [c \in {1} |-> IdleCall]
    /\ savedAt = [id \in CachedSummoners |-> 0]
    /\ added = {}

CleanupNext ==
    \/ InitSettles
    \/ Tick
    \/ StorageSaveSummonerData(SpacedName)
    \/ \E c \in DOMAIN calls : AccountCall(c, "addSavedAccount", SpacedName)
    \/ AccountResume
    \/ StorageCleanupExpiredData

CleanupSpec == CleanupInit /\ [][CleanupNext]_vars

\* the summoner cache entries of the store in use
summonerEntries(st, idb) ==
    IF idb
    THEN {st.idb.summoners[k] : k \in DOMAIN st.idb.summoners}
    ELSE {JSONparse(st.ls[k]) : k \in {x \in DOMAIN st.ls : x[2] = "summoner"}}

\* the app settings: the settings object store and the setting items of localStorage
appSettings(st) ==
    [idb |-> st.idb.settings,
     ls  |-> [k \in {x \in DOMAIN st.ls : x[2] = "setting_"} |-> st.ls[k]]]

\* the step is a call of cleanupExpiredData
cleanupCall ==
    /\ returned'.op = "cleanupExpiredData"
    /\ StorageCleanupExpiredData

\* C38: cleanupExpiredData removes the summoner cache entries older than 12
\* hours and no other, returns their number, and leaves every app setting
\* (savedAccounts, lastAccessedSummoner) as it was, with IndexedDB and with
\* localStorage
C38_CleanupExact ==
    [][cleanupCall =>
         LET entries == summonerEntries(stores, useIndexedDB)
             expired == {e \in entries : olderThan12Hours(e.timestamp)}
         IN /\ summonerEntries(stores', useIndexedDB) = entries \ expired
            /\ returned'.count = Cardinality(expired)
            /\ appSettings(stores') = appSettings(stores)]_vars

====
